---------------------------- MODULE Spec2Model ----------------------------
(***************************************************************************)
(* singleschedule: the scheduler daemon (src/src/scheduler.rs,             *)
(* src/src/daemon.rs), the registry file (src/src/storage.rs) and the CLI  *)
(* handlers that mutate the registry and restart the daemon                *)
(* (src/src/cli.rs).  Time is counted in whole seconds since the epoch.    *)
(***************************************************************************)
EXTENDS Integers, Sequences, FiniteSets, TLC

(***************************************************************************)
(* Bounds of the model.                                                    *)
(***************************************************************************)
StartTime == 60          \* wall clock when the model starts
MaxTime == 90            \* the wall clock stops advancing here
MaxCliOps == 1           \* CLI commands issued in one behaviour
MaxUserOps == 2          \* CLI and TUI commands issued when both are at work

(***************************************************************************)
(* Program constants.                                                      *)
(***************************************************************************)
TickInterval == 10       \* scheduler.rs:61  time::interval(from_secs(10))
Tolerance == 30          \* scheduler.rs:154 chrono::Duration::seconds(30)

Horizon == MaxTime + Tolerance + 60     \* every occurrence the model can see

Slugs == {"a", "b"}

(***************************************************************************)
(* Option<DateTime<Utc>>                                                   *)
(***************************************************************************)
None == [set |-> FALSE, t |-> 0]
Some(t) == [set |-> TRUE, t |-> t]

(***************************************************************************)
(* cron::Schedule.  A parsed schedule is the set of instants               *)
(*   { t : t % period = phase % period /\ t <= until }.                    *)
(* Schedule_from_str gives the schedule of each cron string the model      *)
(* uses; ok = FALSE is a parse error.                                      *)
(***************************************************************************)
EverySecond == "* * * * * *"
Every30s == "*/30 * * * * *"
EveryMinute == "0 * * * * *"
Once1970 == "30 0 0 1 1 * 1970"
BadCron == "invalid cron expression"
\* Second 50 of every minute; registered only in OccurrenceRegistries.
Second50 == "50 * * * * *"

CronStrings == {EverySecond, Every30s, EveryMinute, Once1970, BadCron}

Schedule_from_str(s) ==
  CASE s = EverySecond -> [ok |-> TRUE, period |-> 1, phase |-> 0, until |-> Horizon]
    [] s = Every30s    -> [ok |-> TRUE, period |-> 30, phase |-> 0, until |-> Horizon]
    [] s = EveryMinute -> [ok |-> TRUE, period |-> 60, phase |-> 0, until |-> Horizon]
    [] s = Once1970    -> [ok |-> TRUE, period |-> 60, phase |-> 30, until |-> 30]
    [] s = Second50    -> [ok |-> TRUE, period |-> 60, phase |-> 50, until |-> Horizon]
    [] OTHER           -> [ok |-> FALSE, period |-> 1, phase |-> 0, until |-> 0]

\* The first occurrence at or after t: Schedule::after made inclusive, a
\* variant that the statement of C8 must tell from NextAfter.
NextAtOrAfter(sched, t) ==
  LET c == t + ((sched.phase - t) % sched.period)
  IN  IF c <= sched.until THEN Some(c) ELSE None

\* schedule.after(&t).next(): the first occurrence strictly after t.
NextAfter(sched, t) ==
  LET c == t + 1 + ((sched.phase - (t + 1)) % sched.period)
  IN  IF c <= sched.until THEN Some(c) ELSE None

\* Scheduler::should_run
\* should_run with the tolerance bound excluded (next < now + 30 s): a
\* variant that the statement of C1 must tell from should_run.
should_run_strict(sched, last_run, now_) ==
  LET last == IF last_run.set THEN last_run.t ELSE 0
      next == NextAfter(sched, last)
  IN  IF next.set THEN next.t < now_ + Tolerance ELSE FALSE

\* should_run without the tolerance bound (any occurrence to come makes the
\* task due): a variant that the statement of C37 must tell from should_run.
should_run_any_next(sched, last_run, now_) ==
  LET last == IF last_run.set THEN last_run.t ELSE 0
  IN  NextAfter(sched, last).set

should_run(sched, last_run, now_) ==
  LET last == IF last_run.set THEN last_run.t ELSE 0
      next == NextAfter(sched, last)
  IN  IF next.set THEN next.t <= now_ + Tolerance ELSE FALSE

(***************************************************************************)
(* storage::Event and the command lines the model registers.               *)
(***************************************************************************)
Commands == {"echo hi", ""}

\* command.split_whitespace().collect(): the tokens of a command line.
split_whitespace(command) ==
  CASE command = "echo hi" -> <<"echo", "hi">>
    [] OTHER -> <<>>

Event(slug, cron, command, active, created_at, last_run) ==
  [slug |-> slug, cron |-> cron, command |-> command, active |-> active,
   created_at |-> created_at, last_run |-> last_run]

\* What run_command can report for a command line.
Outcomes(command) ==
  IF split_whitespace(command) = <<>> THEN {"empty"}
  ELSE {"exit_zero", "exit_nonzero", "spawn_failed"}


(***************************************************************************)
(* Registry helpers.                                                       *)
(***************************************************************************)
Indices(events) == 1..Len(events)

SlugsOf(events) == {events[i].slug : i \in Indices(events)}

\* storage.events.iter().find(|e| e.slug == slug): the first event of a slug.
Find(events, slug) ==
  events[CHOOSE i \in Indices(events) :
           /\ events[i].slug = slug
           /\ \A j \in 1..(i - 1) : events[j].slug # slug]

\* A reload_events that stops at the first cron that does not parse and keeps
\* the entries made up to there: a variant that the statement of C20 must
\* tell from BuildSchedules.
BuildSchedules_until_failure(events) ==
  LET bad == {i \in Indices(events) : ~Schedule_from_str(events[i].cron).ok}
      parsed == {i \in Indices(events) : \A j \in bad : i < j}
      last(s) == CHOOSE i \in parsed :
                   /\ events[i].slug = s
                   /\ \A j \in parsed : events[j].slug = s => j <= i
  IN  [s \in {events[i].slug : i \in parsed} |->
         Schedule_from_str(events[last(s)].cron)]

\* The HashMap<String, Schedule> built by load_events / reload_events: one
\* entry per slug whose cron parses; a later event of a slug overwrites an
\* earlier one.
BuildSchedules(events) ==
  LET parsed == {i \in Indices(events) : Schedule_from_str(events[i].cron).ok}
      last(s) == CHOOSE i \in parsed :
                   /\ events[i].slug = s
                   /\ \A j \in parsed : events[j].slug = s => j <= i
  IN  [s \in {events[i].slug : i \in parsed} |->
         Schedule_from_str(events[last(s)].cron)]

\* A Storage::save that keeps the events of the file on disk whose slug the
\* writer's registry does not have: a variant that the statement of C24 must
\* tell from Saved.
Saved_merged(onDisk, mine) ==
  mine \o SelectSeq(onDisk, LAMBDA e : e.slug \notin SlugsOf(mine))

\* A Storage::save that leaves the file as it is: a variant that the
\* statement of C39 must tell from Saved.
Saved_nothing(onDisk, mine) == onDisk

\* Storage::save, lines 57-58: the document is made from the writer's
\* registry alone and replaces the whole file.
Saved(onDisk, mine) == mine

\* An update that stamps every event: a variant that the statement of C35
\* must tell from UpdateLastRun.
UpdateLastRun_all(events, idxs, now_) ==
  [i \in Indices(events) |->
     IF idxs # <<>> THEN [events[i] EXCEPT !.last_run = Some(now_)]
     ELSE events[i]]

\* check_and_run_tasks, lines 130-132: last_run = Some(now) for each index.
UpdateLastRun(events, idxs, now_) ==
  [i \in Indices(events) |->
     IF \E k \in 1..Len(idxs) : idxs[k] = i
     THEN [events[i] EXCEPT !.last_run = Some(now_)]
     ELSE events[i]]

(***************************************************************************)
(* State.                                                                  *)
(***************************************************************************)
VARIABLES
  clock,            \* Utc::now(), seconds
  file,             \* events.json: the registry on disk
  pidFile,          \* daemon.pid: 0 when absent, else the recorded pid
  dStatus,          \* the daemon process: none / alive / exited / killed / failed
  dPid,             \* its process id
  pc,               \* where the daemon is: load / wait / eval / running
  storage,          \* Scheduler.storage.events
  schedules,        \* Scheduler.schedules
  now,              \* check_and_run_tasks: now
  nextTick,         \* Scheduler::run: the interval's next deadline
  idx,              \* check_and_run_tasks: the loop index (1-based)
  tasks_to_update,  \* check_and_run_tasks: tasks_to_update
  signalled,        \* SIGINT was delivered: the ctrl_c future is ready
  cli,              \* the CLI process running one command
  opsLeft,          \* CLI commands still to be issued
  tui,              \* a second user process (the TUI) calling daemon.rs
  orphans,          \* daemons alive and looping that a newer one replaced
  dying,            \* processes that got SIGTERM and are not gone yet
  \* history variables (not program state)
  evals,            \* this tick's should_run calls: index, slug, last_run,
                    \* the answer, and what run_command reported if called
  prevNow,          \* now of the tick before this one
  prevEvals,        \* evals of the tick before this one
  tickLog,          \* what reload_events and save returned in this tick, and
                    \* what save returned in the tick before
  exitPoint,        \* pc of the daemon when it ended
  lastSignal,       \* the last signal delivered to the daemon
  fresh,            \* who holds a copy of events.json that nobody else has
                    \* written since it was read: "cli", "daemon"
  lastWriter,       \* who wrote events.json last, and whether from a copy
                    \* that somebody else had written since ("_stale")
  mutation,         \* the last mutation a CLI handler saved to events.json
  app,              \* the TUI's memory: the registry the menu interface
                    \* holds, and the AppState of the full-screen interface
  clean,            \* no reload/persist failure and no CLI save so far
  result            \* per user process: what its last stop_daemon and
                    \* start_daemon found in the PID file and returned

vars == <<clock, file, pidFile, dStatus, dPid, pc, storage, schedules, now,
          nextTick, idx, tasks_to_update, signalled, cli, opsLeft, tui,
          orphans, dying, evals, prevNow, prevEvals, tickLog, exitPoint,
          lastSignal, fresh, lastWriter, mutation, app, clean, result>>

daemonVars == <<dStatus, dPid, pc, storage, schedules, now, nextTick, idx,
                tasks_to_update, signalled>>
tickHistory == <<evals, prevNow, prevEvals, tickLog>>

\* No tick yet: nothing was reloaded or saved.
NoTick == [reload |-> "none", save |-> "none", prevSave |-> "none"]
cliVars == <<cli, opsLeft>>

\* The TUI before it has loaded anything: run_simple_tui's storage, and
\* AppState::default() (tui/state.rs lines 96-108).  op is the AppState
\* method called last.
NoApp == [storage |-> <<>>, tasks |-> <<>>, selected_index |-> 0,
          op |-> "none"]

lifeVars == <<tui, orphans, dying, result>>

(***************************************************************************)
(* The scheduler daemon: run_scheduler and Scheduler::run.                 *)
(***************************************************************************)

\* The daemon process ends at program point at: its memory is gone.
Ended(status, at) ==
  /\ dStatus' = status
  /\ exitPoint' = at
  /\ pc' = "done"
  /\ storage' = <<>>
  /\ schedules' = <<>>
  /\ now' = 0
  /\ nextTick' = 0
  /\ idx' = 1
  /\ tasks_to_update' = <<>>
  /\ signalled' = FALSE
  /\ evals' = <<>>
  /\ prevNow' = 0
  /\ prevEvals' = <<>>
  /\ tickLog' = NoTick
  /\ fresh' = fresh \ {"daemon"}

\* run_scheduler, lines 88-89: Scheduler::new() and load_events().  A load
\* error leaves run_scheduler through `?`, before the PID file clean-up.
LoadEvents ==
  /\ dStatus = "alive" /\ pc = "load"
  /\ \E ok \in BOOLEAN :
       IF ok
       THEN /\ storage' = file
            /\ schedules' = BuildSchedules(file)
            /\ pc' = "wait"
            /\ nextTick' = clock
            /\ fresh' = fresh \cup {"daemon"}
            /\ UNCHANGED <<dStatus, exitPoint, clean, now, idx,
                           tasks_to_update, signalled, tickHistory>>
       ELSE /\ Ended("failed", pc)
            /\ clean' = FALSE
  /\ UNCHANGED <<clock, file, pidFile, dPid, cliVars, lifeVars, lastSignal,
                 lastWriter, mutation, app>>

\* A reload_events that falls back to an empty value when Storage::load
\* fails: a variant that the statement of C21 must tell from Reloaded.
Reloaded_or_empty(ok, old, new) == IF ok THEN new ELSE <<>>

\* A reload_events that goes on with the registry the daemon has in memory: a
\* variant that the statement of C27 must tell from Reloaded.
Reloaded_in_memory(ok, old, new) == old

\* reload_events, lines 77 and 94-95: the `?` of line 77 returns before the
\* assignments to self.schedules and *self.storage, so on an error both
\* fields keep their values.
Reloaded(ok, old, new) == IF ok THEN new ELSE old

\* A reload_events that inserts into self.schedules, as load_events does,
\* instead of building a new map: a variant that the statement of C22 must
\* tell from Rebuilt.
Rebuilt_in_place(old, events) == BuildSchedules(events) @@ old

\* reload_events, lines 78-94: the schedules are collected in a new HashMap,
\* which then replaces self.schedules.
Rebuilt(old, events) == BuildSchedules(events)

\* Scheduler::run, lines 64-72: the interval fires, reload_events (an error is
\* logged and the old storage and schedules stay), now = Utc::now(), and
\* check_and_run_tasks starts (lines 100-101).  The interval of line 61 has
\* its first deadline where it is created and one every 10 s after it; a
\* deadline that passed while a command ran fires at once (tokio's default
\* for missed ticks), so two ticks can see the same now.
Tick ==
  /\ dStatus = "alive" /\ pc = "wait"
  /\ clock >= nextTick
  /\ \E ok \in BOOLEAN :
       /\ storage' = Reloaded(ok, storage, file)
       /\ schedules' = Reloaded(ok, schedules, Rebuilt(schedules, file))
       /\ tickLog' = [reload |-> IF ok THEN "ok" ELSE "failed",
                      save |-> "none", prevSave |-> tickLog.save]
       /\ IF ok
          THEN /\ fresh' = fresh \cup {"daemon"}
               /\ clean' = clean
          ELSE /\ fresh' = fresh
               /\ clean' = FALSE
  /\ now' = clock
  /\ nextTick' = nextTick + TickInterval
  /\ idx' = 1
  /\ tasks_to_update' = <<>>
  /\ evals' = <<>>
  /\ prevNow' = now
  /\ prevEvals' = evals
  /\ pc' = "eval"
  /\ UNCHANGED <<clock, file, pidFile, dStatus, dPid, signalled, cliVars,
                 lifeVars, exitPoint, lastSignal, lastWriter, mutation, app>>

\* A run_command that does not wait for the child it spawned: a variant that
\* the statement of C25 must tell from AwaitChild.
AwaitChild_detached == "eval"

\* run_command, lines 169-175: spawn()?.wait_with_output().await suspends
\* the daemon's task, inside the loop of check_and_run_tasks, until the child
\* has exited.
AwaitChild == "running"

\* check_and_run_tasks, lines 103-125, for the event at idx: look its schedule
\* up, ask should_run, and call run_command.  run_command returns Err at once
\* for an empty command line or a failed spawn (lines 165-167, 173), else the
\* child is running and the daemon awaits it.
EvalTask ==
  /\ dStatus = "alive" /\ pc = "eval" /\ idx <= Len(storage)
  /\ LET event == storage[idx]
         call(due, o) == [idx |-> idx, slug |-> event.slug,
                          last_run |-> event.last_run, due |-> due,
                          outcome |-> o]
     IN  IF event.slug \in DOMAIN schedules
         THEN IF should_run(schedules[event.slug], event.last_run, now)
              THEN \E o \in Outcomes(event.command) :
                     IF o \in {"empty", "spawn_failed"}
                     THEN /\ evals' = Append(evals, call(TRUE, o))
                          /\ idx' = idx + 1
                          /\ pc' = pc
                     ELSE /\ evals' = Append(evals, call(TRUE, "spawned"))
                          /\ idx' = idx
                          /\ pc' = AwaitChild
              ELSE /\ evals' = Append(evals, call(FALSE, "none"))
                   /\ idx' = idx + 1
                   /\ pc' = pc
         ELSE /\ idx' = idx + 1
              /\ UNCHANGED <<pc, evals>>
  /\ UNCHANGED <<clock, file, pidFile, dStatus, dPid, storage, schedules, now,
                 nextTick, tasks_to_update, signalled, cliVars, lifeVars,
                 prevNow, prevEvals, tickLog, exitPoint, lastSignal, fresh,
                 lastWriter, mutation, app, clean>>

\* run_command, lines 174-192, and check_and_run_tasks, lines 109-118: the
\* child exits, with any status, and the index is pushed to tasks_to_update.
CommandExit ==
  /\ dStatus = "alive" /\ pc = "running"
  /\ \E success \in BOOLEAN :
       evals' = [evals EXCEPT ![Len(evals)].outcome =
                       IF success THEN "exit_zero" ELSE "exit_nonzero"]
  /\ tasks_to_update' = Append(tasks_to_update, idx)
  /\ idx' = idx + 1
  /\ pc' = "eval"
  /\ UNCHANGED <<clock, file, pidFile, dStatus, dPid, storage, schedules, now,
                 nextTick, signalled, cliVars, lifeVars, prevNow, prevEvals,
                 tickLog, exitPoint, lastSignal, fresh, lastWriter, mutation, app, clean>>

\* A check_and_run_tasks that saves at the end of every tick: a variant that
\* the statement of C26 must tell from should_save.
should_save_always(tasks) == TRUE

\* check_and_run_tasks, line 128: !tasks_to_update.is_empty().
should_save(tasks) == tasks # <<>>

\* check_and_run_tasks, lines 127-139: the loop is over; set last_run of the
\* recorded tasks and, if there is any, save the whole storage once (an error
\* is logged).  Then Scheduler::run waits for the next tick.
Persist ==
  /\ dStatus = "alive" /\ pc = "eval" /\ idx > Len(storage)
  /\ storage' = UpdateLastRun(storage, tasks_to_update, now)
  /\ IF should_save(tasks_to_update)
     THEN \E ok \in BOOLEAN :
            IF ok
            THEN /\ file' = Saved(file, storage')
                 /\ fresh' = {"daemon"}
                 /\ lastWriter' = IF "daemon" \in fresh
                                  THEN "daemon" ELSE "daemon_stale"
                 /\ mutation' = mutation
                 /\ app' = app
                 /\ clean' = clean
                 /\ tickLog' = [tickLog EXCEPT !.save = "ok"]
            ELSE /\ clean' = FALSE
                 /\ tickLog' = [tickLog EXCEPT !.save = "failed"]
                 /\ UNCHANGED <<file, fresh, lastWriter, mutation, app>>
     ELSE UNCHANGED <<file, fresh, lastWriter, mutation, app, clean, tickLog>>
  /\ pc' = "wait"
  /\ UNCHANGED <<clock, pidFile, dStatus, dPid, schedules, now, nextTick, idx,
                 tasks_to_update, signalled, cliVars, lifeVars, evals,
                 prevNow, prevEvals, exitPoint, lastSignal>>

\* SIGINT is delivered to the daemon.  signal::ctrl_c() installs its handler
\* when the shutdown_signal future is first polled, in select! (daemon.rs
\* lines 92-97), so before that (during load_events, line 89) the signal has
\* its default action and ends the process at once, PID file left behind.
\* After that the handler makes the ctrl_c future ready.
SigintArrives ==
  /\ dStatus = "alive" /\ ~signalled
  /\ lastSignal' = "SIGINT"
  /\ IF pc = "load"
     THEN Ended("killed", pc)
     ELSE /\ signalled' = TRUE
          /\ UNCHANGED <<dStatus, pc, storage, schedules, now, nextTick, idx,
                         tasks_to_update, tickHistory, exitPoint, fresh>>
  /\ UNCHANGED <<clock, file, pidFile, dPid, cliVars, lifeVars, lastWriter, mutation, app,
                 clean>>

\* A select! that looks at the ctrl_c future only once Scheduler::run has
\* returned, which its loop never does: a variant that the statement of C11
\* must tell from Sigint.
Sigint_after_run ==
  /\ dStatus = "alive" /\ signalled /\ pc = "returned"
  /\ Ended("exited", pc)
  /\ pidFile' = 0
  /\ UNCHANGED <<clock, file, dPid, cliVars, lifeVars, lastSignal, lastWriter, mutation, app,
                 clean>>

\* run_scheduler lines 97-112: select! polls the ctrl_c future whenever the
\* run future is suspended at an await (the tick wait, or a running command);
\* once it is ready, select! drops the run future where it stands, the PID
\* file is removed if it exists, and the process exits.
Sigint ==
  /\ dStatus = "alive" /\ signalled /\ pc \in {"wait", "running"}
  /\ Ended("exited", pc)
  /\ pidFile' = 0
  /\ UNCHANGED <<clock, file, dPid, cliVars, lifeVars, lastSignal, lastWriter, mutation, app,
                 clean>>

\* Time passes, one tick interval at a time; the daemon may or may not tick
\* meanwhile (it can be busy, or not running).
Advance ==
  /\ clock + TickInterval <= MaxTime
  /\ clock' = clock + TickInterval
  /\ UNCHANGED <<file, pidFile, daemonVars, cliVars, lifeVars, tickHistory,
                 exitPoint, lastSignal, fresh, lastWriter, mutation, app, clean>>

\* Beyond MaxTime the model no longer counts the seconds, but the interval
\* keeps firing: ten more seconds have passed and the next tick is ready.
Elapse ==
  /\ dStatus = "alive" /\ pc = "wait"
  /\ clock = MaxTime /\ nextTick > clock
  /\ nextTick' = clock
  /\ UNCHANGED <<clock, file, pidFile, dStatus, dPid, pc, storage, schedules,
                 now, idx, tasks_to_update, signalled, cliVars, lifeVars,
                 tickHistory, exitPoint, lastSignal, fresh, lastWriter, mutation, app,
                 clean>>

(***************************************************************************)
(* The CLI process: cli.rs handlers and the daemon.rs calls they make.     *)
(***************************************************************************)
Idle == [pc |-> "idle", op |-> "none", slugs |-> {}, cron |-> "",
         command |-> "", events |-> <<>>, restart |-> FALSE]

\* A SetActive that rebuilds the events it touches without their last_run: a
\* variant that the statement of C3 must tell from SetActive.
SetActive_rebuilt(events, slugs, v) ==
  [i \in Indices(events) |->
     IF /\ events[i].slug \in slugs
        /\ \A j \in 1..(i - 1) : events[j].slug # events[i].slug
     THEN Event(events[i].slug, events[i].cron, events[i].command, v,
                events[i].created_at, None)
     ELSE events[i]]

\* A SetActive that sets the flag of every event: a variant that the
\* statement of C34 must tell from SetActive.
SetActive_all(events, slugs, v) ==
  [i \in Indices(events) |-> [events[i] EXCEPT !.active = v]]

\* The first event of each slug of slugs gets active = v (handle_start lines
\* 168-175, handle_stop lines 210-217).
SetActive(events, slugs, v) ==
  [i \in Indices(events) |->
     IF /\ events[i].slug \in slugs
        /\ \A j \in 1..(i - 1) : events[j].slug # events[i].slug
     THEN [events[i] EXCEPT !.active = v]
     ELSE events[i]]

\* handle_start lines 186-188: every event gets active = true.
ActivateAll(events) ==
  [i \in Indices(events) |-> [events[i] EXCEPT !.active = TRUE]]

\* A retain that drops every event: a variant that the statement of C30 must
\* tell from Retain.
Retain_clear(events, slug) == <<>>

\* storage.events.retain(|e| e.slug != slug)
Retain(events, slug) == SelectSeq(events, LAMBDA e : e.slug # slug)

\* The daemon processes that exist: the one the model follows, older ones
\* still looping, and those that got SIGTERM and are not gone yet.
AlivePids ==
  (IF dStatus = "alive" THEN {dPid} ELSE {}) \cup orphans \cup dying

\* An is_process_running for which no process ever exists, and one for which
\* every pid names a process: variants that the statements of C14 and C15
\* must tell from is_process_running.
is_process_running_never(pid) == FALSE

is_process_running_always(pid) == TRUE

\* daemon.rs is_process_running: kill(pid, 0) succeeds.
is_process_running(pid) == pid \in AlivePids

\* The user processes that call daemon.rs.
Users == {"cli", "tui"}

\* What a user process' stop_daemon and start_daemon found and returned.
\* op, slugs, cron and error: the CLI handler that returned an error, the
\* slugs and the cron expression it was called with, and the error's message
\* (<<>> for none).
NoResult == [stopSaw |-> "none", stop |-> "none",
             startSaw |-> "none", start |-> "none",
             op |-> "none", slugs |-> {}, cron |-> "", error |-> <<>>]

\* The errors of cli.rs, by their messages (lines 70, 76, 110, 179, 221).
InvalidCron == <<"Invalid cron expression">>

AlreadyExists(slug) == <<"Task with slug '", slug, "' already exists">>

NotFound(slug) == <<"Task with slug '", slug, "' not found">>

NoValidTasks(op) == <<"No valid tasks found to ", op>>

\* A CLI handler returns Err(error).
Failed(op, slugs, cron, error) ==
  [NoResult EXCEPT !.op = op, !.slugs = slugs, !.cron = cron,
                   !.error = error]

\* stop_daemon's first error with the message of its second: a variant that
\* the statement of C16 must tell from NotRunning.
NotRunning_as_stale == "Daemon is not running (stale PID file removed)"

\* The errors of daemon.rs, by their messages (lines 46, 53-55 and 16-19).
NotRunning == "Daemon is not running"

StaleState == "Daemon is not running (stale PID file removed)"

AlreadyRunning == "Daemon is already running"

\* An add that takes any cron expression: a variant that the statement of
\* C32 must tell from ValidCron.
ValidCron_unchecked(cron) == TRUE

\* The validation of the add paths (cli.rs lines 69-70, tui/state.rs lines
\* 80-83, tui/simple_interface.rs lines 603-608):
\* cron::Schedule::from_str(&cron) is Ok.
ValidCron(cron) == Schedule_from_str(cron).ok

\* The cron expressions the CLI is asked to add.
AddCrons == {EveryMinute, BadCron}

\* Every handler starts with Storage::load() (handle_add validates the cron
\* expression first and fails without loading when it does not parse).
CliLoad ==
  /\ cli.pc = "idle" /\ opsLeft > 0
  /\ opsLeft' = opsLeft - 1
  /\ \E op \in {"add", "remove", "stop", "start"}, slugs \in SUBSET Slugs,
        cron \in AddCrons, command \in Commands :
       /\ op \in {"add", "remove"} => Cardinality(slugs) = 1
       /\ op # "add" => cron = EveryMinute /\ command = ""
       /\ IF op = "add" /\ ~ValidCron(cron)
          THEN /\ cli' = Idle
               /\ fresh' = fresh
               /\ result' = [result EXCEPT
                               !["cli"] = Failed(op, slugs, cron, InvalidCron)]
          ELSE IF op = "stop" /\ slugs = {}
               THEN /\ cli' = [Idle EXCEPT !.pc = "stop_daemon", !.op = op]
                    /\ fresh' = fresh
                    /\ result' = [result EXCEPT !["cli"] = NoResult]
               ELSE /\ cli' = [pc |-> "loaded", op |-> op, slugs |-> slugs,
                               cron |-> cron, command |-> command,
                               events |-> file, restart |-> FALSE]
                    /\ fresh' = fresh \cup {"cli"}
                    /\ result' = [result EXCEPT !["cli"] = NoResult]
  /\ UNCHANGED <<clock, file, pidFile, daemonVars, tui, orphans, dying,
                 tickHistory, exitPoint, lastSignal, lastWriter, mutation, app, clean>>

\* No CLI handler has saved a mutation.
NoMutation == [op |-> "none", slugs |-> {}, cron |-> ""]

\* The CLI writes events.json (Storage::save) and goes on to next.
CliWrite(events, next, restart) ==
  /\ file' = Saved(file, events)
  /\ fresh' = {}
  /\ lastWriter' = IF "cli" \in fresh THEN "cli" ELSE "cli_stale"
  /\ mutation' = [op |-> cli.op, slugs |-> cli.slugs, cron |-> cli.cron]
  /\ app' = app
  /\ clean' = FALSE
  /\ cli' = [Idle EXCEPT !.pc = next, !.op = cli.op, !.restart = restart]
  /\ result' = result

\* The handler returns Err(error) without saving.
CliFail(error) ==
  /\ cli' = Idle
  /\ fresh' = fresh \ {"cli"}
  /\ result' = [result EXCEPT
                  !["cli"] = Failed(cli.op, cli.slugs, cli.cron, error)]
  /\ UNCHANGED <<file, lastWriter, mutation, app, clean>>

\* handle_add without its duplicate check: a variant that the statement of
\* C29 must tell from any_slug.
any_slug_never(events, slug) == FALSE

\* storage.events.iter().any(|e| e.slug == slug), line 75.
any_slug(events, slug) == slug \in SlugsOf(events)

\* handle_add lines 74-98: reject a duplicate slug, else push the new event,
\* save and restart the daemon.
HandleAdd ==
  /\ cli.pc = "loaded" /\ cli.op = "add"
  /\ LET slug == CHOOSE s \in cli.slugs : TRUE
     IN  IF any_slug(cli.events, slug)
         THEN CliFail(AlreadyExists(slug))
         ELSE CliWrite(Append(cli.events,
                              Event(slug, cli.cron, cli.command, TRUE, clock,
                                    None)),
                       "stop_daemon", TRUE)
  /\ UNCHANGED <<clock, pidFile, daemonVars, opsLeft, tui, orphans, dying,
                 tickHistory, exitPoint, lastSignal>>

\* handle_remove lines 106-120.
HandleRemove ==
  /\ cli.pc = "loaded" /\ cli.op = "remove"
  /\ LET slug == CHOOSE s \in cli.slugs : TRUE
         kept == Retain(cli.events, slug)
     IN  IF Len(kept) = Len(cli.events)
         THEN CliFail(NotFound(slug))
         ELSE CliWrite(kept, "stop_daemon", TRUE)
  /\ UNCHANGED <<clock, pidFile, daemonVars, opsLeft, tui, orphans, dying,
                 tickHistory, exitPoint, lastSignal>>

\* handle_stop lines 207-235, for a non-empty slug list: deactivate, save,
\* then restart the daemon if a task is still active, else stop it.
HandleStop ==
  /\ cli.pc = "loaded" /\ cli.op = "stop"
  /\ LET events == SetActive(cli.events, cli.slugs, FALSE)
         anyActive == \E i \in Indices(events) : events[i].active
     IN  IF cli.slugs \cap SlugsOf(cli.events) = {}
         THEN CliFail(NoValidTasks("stop"))
         ELSE CliWrite(events, "stop_daemon", anyActive)
  /\ UNCHANGED <<clock, pidFile, daemonVars, opsLeft, tui, orphans, dying,
                 tickHistory, exitPoint, lastSignal>>

\* handle_start lines 165-199: activate the named tasks (or all of them when
\* no slug is given), save, then start_daemon.
HandleStart ==
  /\ cli.pc = "loaded" /\ cli.op = "start"
  /\ IF cli.slugs # {}
     THEN IF cli.slugs \cap SlugsOf(cli.events) = {}
          THEN CliFail(NoValidTasks("start"))
          ELSE CliWrite(SetActive(cli.events, cli.slugs, TRUE),
                        "start_daemon", FALSE)
     ELSE IF \E i \in Indices(cli.events) : ~cli.events[i].active
          THEN CliWrite(ActivateAll(cli.events), "start_daemon", FALSE)
          ELSE /\ cli' = [Idle EXCEPT !.pc = "start_daemon", !.op = cli.op]
               /\ fresh' = fresh \ {"cli"}
               /\ UNCHANGED <<file, lastWriter, mutation, app, clean, result>>
  /\ UNCHANGED <<clock, pidFile, daemonVars, opsLeft, tui, orphans, dying,
                 tickHistory, exitPoint, lastSignal>>

(***************************************************************************)
(* daemon.rs: stop_daemon, start_daemon and restart_daemon, as called by   *)
(* the CLI handlers and by the TUI.                                        *)
(***************************************************************************)
Proc(self) == IF self = "cli" THEN cli ELSE tui

SetProc(self, v) ==
  IF self = "cli" THEN cli' = v /\ tui' = tui ELSE tui' = v /\ cli' = cli

\* What a user process finds at get_pid_file(): no PID file, one naming a
\* process that does not exist, or one naming a process that does.
MarkerState ==
  IF pidFile = 0 THEN "absent"
  ELSE IF pidFile \in AlivePids THEN "live" ELSE "stale"

Stopped(self, saw, returned) ==
  result' = [result EXCEPT ![self].stopSaw = saw, ![self].stop = returned]

\* A restart_daemon that gives up when stop_daemon has returned: a variant
\* that the statement of C19 must tell from AfterStop.
AfterStop_giving_up(proc) == Idle

\* Where a user process goes after stop_daemon returned: restart_daemon
\* ignores the result and calls start_daemon (lines 79-82); a plain stop
\* returns.
AfterStop(proc) ==
  IF proc.restart THEN [proc EXCEPT !.pc = "start_daemon"] ELSE Idle

\* kill(pid, SIGTERM), lines 62-63.  The daemon installs no SIGTERM handler
\* (run_scheduler awaits ctrl_c only), so the signal ends the scheduler loop
\* where it stands; the process is gone some time later.
Sigterm(pid) ==
  /\ dying' = dying \cup {pid}
  /\ IF dStatus = "alive" /\ dPid = pid
     THEN /\ Ended("killed", pc)
          /\ lastSignal' = "SIGTERM"
          /\ UNCHANGED orphans
     ELSE /\ orphans' = orphans \ {pid}
          /\ UNCHANGED <<dStatus, pc, storage, schedules, now, nextTick, idx,
                         tasks_to_update, signalled, tickHistory, exitPoint,
                         lastSignal, fresh>>

\* stop_daemon lines 43-63: no PID file is an error; a PID file naming a
\* process that does not exist is removed, with another error; else SIGTERM
\* is sent.
StopDaemonBy(self) ==
  /\ Proc(self).pc = "stop_daemon"
  /\ IF pidFile = 0
     THEN /\ SetProc(self, AfterStop(Proc(self)))
          /\ Stopped(self, MarkerState, NotRunning)
          /\ UNCHANGED <<pidFile, daemonVars, orphans, dying, tickHistory,
                         exitPoint, lastSignal, fresh>>
     ELSE IF ~is_process_running(pidFile)
          THEN /\ pidFile' = 0
               /\ SetProc(self, AfterStop(Proc(self)))
               /\ Stopped(self, MarkerState, StaleState)
               /\ UNCHANGED <<daemonVars, orphans, dying, tickHistory,
                              exitPoint, lastSignal, fresh>>
          ELSE /\ Sigterm(pidFile)
               /\ SetProc(self, [Proc(self) EXCEPT !.pc = "stop_sleep"])
               /\ Stopped(self, MarkerState, "none")
               /\ UNCHANGED <<pidFile, dPid>>
  /\ UNCHANGED <<clock, file, opsLeft, lastWriter, mutation, app, clean>>

\* stop_daemon lines 66-75: after the 500 ms sleep the PID file is removed if
\* there is one, whatever it holds, and stop_daemon returns Ok.
StopDaemonCleanupBy(self) ==
  /\ Proc(self).pc = "stop_sleep"
  /\ pidFile' = 0
  /\ SetProc(self, AfterStop(Proc(self)))
  /\ result' = [result EXCEPT ![self].stop = "Ok"]
  /\ UNCHANGED <<clock, file, daemonVars, opsLeft, orphans, dying,
                 tickHistory, exitPoint, lastSignal, fresh, lastWriter, mutation, app,
                 clean>>

\* start_daemon lines 10-40: fail if the PID file names a process that
\* exists, remove a stale one, then daemonize: the new process writes its pid
\* to the PID file and enters run_scheduler.  A daemon that is still looping
\* at that point (its PID file was lost) keeps looping beside the new one.
StartDaemonBy(self) ==
  /\ Proc(self).pc = "start_daemon"
  /\ SetProc(self, Idle)
  /\ IF pidFile # 0 /\ is_process_running(pidFile)
     THEN /\ result' = [result EXCEPT
                          ![self].startSaw = MarkerState,
                          ![self].start = AlreadyRunning]
          /\ UNCHANGED <<pidFile, daemonVars, orphans, tickHistory,
                         exitPoint, lastSignal>>
     ELSE /\ result' = [result EXCEPT ![self].startSaw = MarkerState,
                                      ![self].start = "Ok"]
          /\ orphans' = IF dStatus = "alive" THEN orphans \cup {dPid}
                        ELSE orphans
          /\ dPid' = dPid + 1
          /\ pidFile' = dPid + 1
          /\ dStatus' = "alive"
          /\ pc' = "load"
          /\ storage' = <<>>
          /\ schedules' = <<>>
          /\ now' = 0
          /\ nextTick' = 0
          /\ idx' = 1
          /\ tasks_to_update' = <<>>
          /\ signalled' = FALSE
          /\ evals' = <<>>
          /\ prevNow' = 0
          /\ prevEvals' = <<>>
          /\ tickLog' = NoTick
          /\ exitPoint' = "none"
          /\ lastSignal' = "none"
  /\ UNCHANGED <<clock, file, opsLeft, dying, fresh, lastWriter, mutation, app, clean>>

\* The CLI process in daemon.rs.
StopDaemon == StopDaemonBy("cli")

StopDaemonCleanup == StopDaemonCleanupBy("cli")

StartDaemon == StartDaemonBy("cli")

\* The TUI process: after an edit it calls restart_daemon or stop_daemon
\* (tui/interactive_interface.rs lines 165, 190-193).
TuiCall ==
  /\ tui.pc = "idle" /\ opsLeft > 0
  /\ opsLeft' = opsLeft - 1
  /\ \E op \in {"restart", "stop"} :
       tui' = [Idle EXCEPT !.pc = "stop_daemon", !.op = op,
                           !.restart = (op = "restart")]
  /\ result' = [result EXCEPT !["tui"] = NoResult]
  /\ UNCHANGED <<clock, file, pidFile, daemonVars, cli, orphans, dying,
                 tickHistory, exitPoint, lastSignal, fresh, lastWriter, mutation, app,
                 clean>>

TuiStopDaemon == StopDaemonBy("tui")

TuiStopDaemonCleanup == StopDaemonCleanupBy("tui")

TuiStartDaemon == StartDaemonBy("tui")

\* A process that got SIGTERM is gone.
Terminated ==
  /\ \E pid \in dying : dying' = dying \ {pid}
  /\ UNCHANGED <<clock, file, pidFile, daemonVars, cliVars, tui, orphans,
                 result, tickHistory, exitPoint, lastSignal, fresh,
                 lastWriter, mutation, app, clean>>

\* An older daemon gets SIGINT: it leaves its loop, removes the PID file if
\* there is one (run_scheduler lines 108-112) and exits.
OrphanSigint ==
  /\ \E pid \in orphans : orphans' = orphans \ {pid}
  /\ pidFile' = 0
  /\ UNCHANGED <<clock, file, daemonVars, cliVars, tui, dying, result,
                 tickHistory, exitPoint, lastSignal, fresh, lastWriter, mutation, app,
                 clean>>

(***************************************************************************)
(* The specification.                                                      *)
(***************************************************************************)
\* The daemon as `singleschedule start` leaves it: the process exists, its
\* PID file is written and it is about to load the registry.  No CLI command
\* is in progress.
Started ==
  /\ pidFile = 1
  /\ dStatus = "alive"
  /\ dPid = 1
  /\ pc = "load"
  /\ storage = <<>>
  /\ schedules = <<>>
  /\ now = 0
  /\ nextTick = 0
  /\ idx = 1
  /\ tasks_to_update = <<>>
  /\ signalled = FALSE
  /\ cli = Idle
  /\ evals = <<>>
  /\ prevNow = 0
  /\ prevEvals = <<>>
  /\ tickLog = NoTick
  /\ exitPoint = "none"
  /\ lastSignal = "none"
  /\ fresh = {}
  /\ lastWriter = "none"
  /\ mutation = NoMutation
  /\ app = NoApp
  /\ clean = TRUE
  /\ tui = Idle
  /\ orphans = {}
  /\ dying = {}
  /\ result = [self \in Users |-> NoResult]

\* Tasks that never ran and were created before the model's clock starts.
InitialTasks(slug) ==
  {Event(slug, cron, command, active, 0, None) :
     cron \in CronStrings, command \in Commands, active \in BOOLEAN}

\* The whole system: the daemon, the CLI and the signals, over a registry
\* that starts empty or with one task.
SystemRegistries ==
  {<<>>, <<Event("a", Every30s, "echo hi", TRUE, 0, None)>>,
         <<Event("a", EveryMinute, "echo hi", FALSE, 0, None)>>}

Init ==
  /\ clock = MaxTime - TickInterval
  /\ file \in SystemRegistries
  /\ opsLeft = MaxCliOps
  /\ Started

Next ==
  \/ LoadEvents
  \/ Tick
  \/ EvalTask
  \/ CommandExit
  \/ Persist
  \/ SigintArrives
  \/ Sigint
  \/ Terminated
  \/ Advance
  \/ CliLoad
  \/ HandleAdd
  \/ HandleRemove
  \/ HandleStop
  \/ HandleStart
  \/ StopDaemon
  \/ StopDaemonCleanup
  \/ StartDaemon

Spec == Init /\ [][Next]_vars

\* The same system over registries of two tasks, each active or not, and one
\* of a single task: what a CLI command does to the tasks it does not name.
CliRegistries ==
  {<<Event("a", EveryMinute, "echo hi", x, 0, Some(StartTime)),
     Event("b", Every30s, "echo hi", y, StartTime, None)>> :
     x \in BOOLEAN, y \in BOOLEAN}
  \cup {<<Event("b", EveryMinute, "echo hi", FALSE, 0, None)>>}

CliInit ==
  /\ clock = MaxTime - TickInterval
  /\ file \in CliRegistries
  /\ opsLeft = MaxCliOps
  /\ Started

CliSpec == CliInit /\ [][Next]_vars

\* The scheduler alone, with nobody else touching the registry, over every
\* one-task registry and a few two-task registries.
SchedulerRegistries ==
  {<<>>} \cup {<<a>> : a \in InitialTasks("a")}
         \cup {<<a, b>> : a \in {Event("a", cron, "echo hi", TRUE, 0, None) :
                                   cron \in {Every30s, BadCron}},
                          b \in {Event("b", EveryMinute, "echo hi", active, 0,
                                        None) : active \in BOOLEAN}}

SchedulerInit ==
  /\ clock = StartTime
  /\ file \in SchedulerRegistries
  /\ opsLeft = 0
  /\ Started

SchedulerNext ==
  \/ LoadEvents
  \/ Tick
  \/ EvalTask
  \/ CommandExit
  \/ Persist
  \/ Advance

SchedulerSpec == SchedulerInit /\ [][SchedulerNext]_vars

\* The scheduler alone with one task whose rule has one occurrence a
\* minute: at the top of the minute (60, 120), or at second 50 (50, 110), so
\* that ticks 10 s apart come within 30 s before an occurrence.
OccurrenceRegistries ==
  {<<Event("a", cron, command, TRUE, 0, None)>> :
     cron \in {EveryMinute, Second50}, command \in Commands}

OccurrenceInit ==
  /\ clock = StartTime
  /\ file \in OccurrenceRegistries
  /\ opsLeft = 0
  /\ Started

OccurrenceSpec == OccurrenceInit /\ [][SchedulerNext]_vars

\* The scheduler and SIGINT, with ticks that never stop coming.  The runtime
\* keeps running the daemon's task up to its next await (weak fairness of
\* the steps between awaits); select! polls the ctrl_c future every time the
\* run future is suspended, so a signal that is pending at awaits again and
\* again is taken (strong fairness of Sigint).  Nothing makes a command
\* exit, time pass or a signal arrive.
ShutdownInit ==
  /\ clock = MaxTime - TickInterval
  /\ file \in SystemRegistries
  /\ opsLeft = 0
  /\ Started

ShutdownNext ==
  \/ LoadEvents
  \/ Tick
  \/ EvalTask
  \/ CommandExit
  \/ Persist
  \/ SigintArrives
  \/ Sigint
  \/ Advance
  \/ Elapse

ShutdownSpec ==
  /\ ShutdownInit
  /\ [][ShutdownNext]_vars
  /\ WF_vars(LoadEvents)
  /\ WF_vars(EvalTask)
  /\ WF_vars(Persist)
  /\ SF_vars(Sigint)

\* The daemon's life cycle with two user processes at work at once: the CLI
\* and the TUI, over a registry that starts empty, at one instant.
LifecycleInit ==
  /\ clock = MaxTime
  /\ file = <<>>
  /\ opsLeft = MaxUserOps
  /\ Started

LifecycleNext ==
  \/ LoadEvents
  \/ Tick
  \/ EvalTask
  \/ CommandExit
  \/ Persist
  \/ SigintArrives
  \/ Sigint
  \/ Terminated
  \/ CliLoad
  \/ HandleAdd
  \/ HandleRemove
  \/ HandleStop
  \/ HandleStart
  \/ StopDaemon
  \/ StopDaemonCleanup
  \/ StartDaemon
  \/ TuiCall
  \/ TuiStopDaemon
  \/ TuiStopDaemonCleanup
  \/ TuiStartDaemon
  \/ OrphanSigint

LifecycleSpec == LifecycleInit /\ [][LifecycleNext]_vars

(***************************************************************************)
(* storage.rs: what Storage::save writes and Storage::load reads, field by *)
(* field.  The specifications above keep the registry file as the sequence *)
(* of events the writer holds; here the file is the JSON document that     *)
(* serde derives from struct Event (storage.rs lines 7-15).                *)
(***************************************************************************)

\* chrono's serde format for DateTime<Utc>: an RFC 3339 string, and back.
to_rfc3339(t) == <<"utc", t>>

parse_from_rfc3339(str) == str[2]

\* Option<T>: null for None.
to_json_option(opt) == IF opt.set THEN to_rfc3339(opt.t) ELSE "null"

from_json_option(j) == IF j = "null" THEN None ELSE Some(parse_from_rfc3339(j))

\* serde_json::to_string_pretty(self), line 57: one object per event, with
\* the fields struct Event declares: slug, cron, command, pid, created_at,
\* last_run.  Every constructor of Event sets pid to None.
to_string_pretty(events) ==
  [i \in Indices(events) |->
     [slug |-> events[i].slug, cron |-> events[i].cron,
      command |-> events[i].command, pid |-> "null",
      created_at |-> to_rfc3339(events[i].created_at),
      last_run |-> to_json_option(events[i].last_run)]]

\* serde_json::from_str(&content), line 45: one Event per object, with the
\* fields struct Event declares.
from_str(content) ==
  [i \in Indices(content) |->
     [slug |-> content[i].slug, cron |-> content[i].cron,
      command |-> content[i].command, pid |-> None,
      created_at |-> parse_from_rfc3339(content[i].created_at),
      last_run |-> from_json_option(content[i].last_run)]]

\* The events a process builds, as the constructors of cli.rs lines 79-87,
\* lib.rs lines 28-36 and tui/tests.rs lines 6-16 do, and the registries of
\* up to two of them.
StorageTasks ==
  {Event(slug, cron, "echo hi", active, created_at, last_run) :
     slug \in Slugs, cron \in {EveryMinute, BadCron}, active \in BOOLEAN,
     created_at \in {0, StartTime}, last_run \in {None, Some(StartTime)}}

StorageRegistries ==
  {<<>>} \cup {<<a>> : a \in StorageTasks}
         \cup {<<a, b>> : a \in StorageTasks, b \in StorageTasks}

\* A process builds a registry in memory (Storage::new() and pushes).
StorageNew ==
  /\ tui.pc = "idle"
  /\ \E events \in StorageRegistries :
       tui' = [Idle EXCEPT !.pc = "holding", !.events = events]
  /\ UNCHANGED <<clock, file, pidFile, daemonVars, cliVars, orphans, dying,
                 result, tickHistory, exitPoint, lastSignal, fresh,
                 lastWriter, mutation, app, clean>>

\* Storage::save, lines 49-60.
StorageSave ==
  /\ tui.pc = "holding"
  /\ file' = to_string_pretty(tui.events)
  /\ tui' = [tui EXCEPT !.pc = "saved"]
  /\ UNCHANGED <<clock, pidFile, daemonVars, cliVars, orphans, dying,
                 result, tickHistory, exitPoint, lastSignal, fresh,
                 lastWriter, mutation, app, clean>>

\* Storage::load, lines 33-47: an empty registry when there is no file, else
\* the parsed document.  op records whether the file had been saved.
StorageLoad ==
  /\ cli.pc = "idle"
  /\ cli' = [Idle EXCEPT !.pc = "loaded_back", !.op = tui.pc,
                         !.events = from_str(file)]
  /\ UNCHANGED <<clock, file, pidFile, daemonVars, opsLeft, lifeVars,
                 tickHistory, exitPoint, lastSignal, fresh, lastWriter,
                 mutation, app, clean>>

\* No daemon step is taken here: the registry file starts absent.
StorageInit ==
  /\ clock = StartTime
  /\ file = <<>>
  /\ opsLeft = 0
  /\ Started

StorageNext ==
  \/ StorageNew
  \/ StorageSave
  \/ StorageLoad

StorageSpec == StorageInit /\ [][StorageNext]_vars

(***************************************************************************)
(* The TUI's edits of the registry: the menu interface                     *)
(* (tui/simple_interface.rs), which holds a Storage it loaded, and the     *)
(* full-screen interface (tui/app_r3bl.rs, tui/state.rs), which holds an   *)
(* AppState.                                                               *)
(***************************************************************************)

\* What the user types into an add dialog.
AddSlugs == Slugs \cup {""}

\* The TUI writes events.json and goes on to the daemon.rs call next
\* ("idle" for none).
TuiWrite(next, restart) ==
  /\ fresh' = {}
  /\ lastWriter' = "tui"
  /\ clean' = FALSE
  /\ tui' = [Idle EXCEPT !.pc = next, !.op = "edit", !.restart = restart]
  /\ result' = [result EXCEPT !["tui"] = NoResult]

\* The TUI returns to its menu without a write.
TuiBack ==
  /\ tui' = tui
  /\ UNCHANGED <<file, fresh, lastWriter, clean, result>>

\* run_simple_tui line 12 and "Refresh task list" (lines 89-91):
\* *storage = Storage::load().
TuiRefresh ==
  /\ tui.pc = "idle" /\ opsLeft > 0
  /\ opsLeft' = opsLeft - 1
  /\ app' = [app EXCEPT !.storage = file]
  /\ TuiBack
  /\ UNCHANGED <<clock, pidFile, daemonVars, cli, orphans, dying,
                 tickHistory, exitPoint, lastSignal, mutation>>

\* add_task_with_readline (lines 511-647) and add_task_interactive (lines
\* 649-783): an empty slug cancels, a slug the held registry has is an
\* error, so is a cron expression that does not parse, an empty command
\* cancels; else the event is pushed, the registry saved and the daemon
\* restarted.
TuiAdd ==
  /\ tui.pc = "idle" /\ opsLeft > 0
  /\ opsLeft' = opsLeft - 1
  /\ \E slug \in AddSlugs, cron \in AddCrons, command \in Commands :
       IF \/ slug = ""
          \/ any_slug(app.storage, slug)
          \/ ~ValidCron(cron)
          \/ command = ""
       THEN /\ TuiBack
            /\ app' = app
       ELSE /\ app' = [app EXCEPT
                        !.storage = Append(@, Event(slug, cron, command, TRUE,
                                                    clock, None))]
            /\ file' = Saved(file, app'.storage)
            /\ TuiWrite("stop_daemon", TRUE)
  /\ UNCHANGED <<clock, pidFile, daemonVars, cli, orphans, dying,
                 tickHistory, exitPoint, lastSignal, mutation>>

\* events.remove(index - 1)
Remove(events, i) ==
  [j \in 1..(Len(events) - 1) |-> IF j < i THEN events[j] ELSE events[j + 1]]

\* task.active = !task.active
Toggle(events, i) == [events EXCEPT ![i].active = ~@]

\* delete_task_with_readline (lines 785-910): the chosen event is removed,
\* the registry saved, and the daemon restarted if a task is still active,
\* else stopped.
TuiDelete ==
  /\ tui.pc = "idle" /\ opsLeft > 0
  /\ opsLeft' = opsLeft - 1
  /\ \E i \in Indices(app.storage) :
       /\ app' = [app EXCEPT !.storage = Remove(@, i)]
       /\ file' = Saved(file, app'.storage)
       /\ TuiWrite("stop_daemon",
                   \E j \in Indices(app'.storage) : app'.storage[j].active)
  /\ UNCHANGED <<clock, pidFile, daemonVars, cli, orphans, dying,
                 tickHistory, exitPoint, lastSignal, mutation>>

\* toggle_task_with_readline (lines 1159-1290): the chosen event's flag is
\* flipped, the registry saved and the daemon restarted.
TuiToggle ==
  /\ tui.pc = "idle" /\ opsLeft > 0
  /\ opsLeft' = opsLeft - 1
  /\ \E i \in Indices(app.storage) :
       /\ app' = [app EXCEPT !.storage = Toggle(@, i)]
       /\ file' = Saved(file, app'.storage)
       /\ TuiWrite("stop_daemon", TRUE)
  /\ UNCHANGED <<clock, pidFile, daemonVars, cli, orphans, dying,
                 tickHistory, exitPoint, lastSignal, mutation>>

\* NewTaskInput::create_task, tui/state.rs lines 75-94: None when a field is
\* empty or the cron expression does not parse.
create_task(new_task, at) ==
  IF \/ new_task.slug = "" \/ new_task.cron = "" \/ new_task.command = ""
     \/ ~ValidCron(new_task.cron)
  THEN [some |-> FALSE]
  ELSE [some |-> TRUE,
        task |-> Event(new_task.slug, new_task.cron, new_task.command, TRUE,
                       at, None)]

\* AppSignal::RefreshTasks, tui/app_r3bl.rs lines 136-146: the tasks are
\* replaced by the loaded ones; selected_index is left as it is.
AppRefreshTasks ==
  /\ tui.pc = "idle" /\ opsLeft > 0
  /\ opsLeft' = opsLeft - 1
  /\ app' = [app EXCEPT !.tasks = file]
  /\ TuiBack
  /\ UNCHANGED <<clock, pidFile, daemonVars, cli, orphans, dying,
                 tickHistory, exitPoint, lastSignal, mutation>>

\* The add dialog's Enter on the last field (tui/add_task_dialog.rs lines
\* 52-64) and AppSignal::AddTask (tui/app_r3bl.rs lines 180-187): the task
\* that create_task returns is pushed and the state saved.
AppAddTask ==
  /\ tui.pc = "idle" /\ opsLeft > 0
  /\ opsLeft' = opsLeft - 1
  /\ \E slug \in AddSlugs, cron \in AddCrons, command \in Commands :
       LET created == create_task([slug |-> slug, cron |-> cron,
                                   command |-> command], clock)
       IN  IF created.some
           THEN /\ app' = [app EXCEPT !.tasks = Append(@, created.task)]
                /\ file' = Saved(file, app'.tasks)
                /\ TuiWrite("idle", FALSE)
           ELSE /\ TuiBack
                /\ app' = app
  /\ UNCHANGED <<clock, pidFile, daemonVars, cli, orphans, dying,
                 tickHistory, exitPoint, lastSignal, mutation>>

\* AppSignal::ToggleTask(index), tui/app_r3bl.rs lines 155-164.
AppToggleTask ==
  /\ tui.pc = "idle" /\ opsLeft > 0
  /\ opsLeft' = opsLeft - 1
  /\ \E i \in Indices(app.tasks) :
       /\ app' = [app EXCEPT !.tasks = Toggle(@, i)]
       /\ file' = Saved(file, app'.tasks)
       /\ TuiWrite("idle", FALSE)
  /\ UNCHANGED <<clock, pidFile, daemonVars, cli, orphans, dying,
                 tickHistory, exitPoint, lastSignal, mutation>>

\* AppSignal::DeleteTask(index), tui/app_r3bl.rs lines 165-179.
AppDeleteTask ==
  /\ tui.pc = "idle" /\ opsLeft > 0
  /\ opsLeft' = opsLeft - 1
  /\ \E i \in Indices(app.tasks) :
       LET tasks == Remove(app.tasks, i)
       IN  /\ app' = [app EXCEPT
                        !.tasks = tasks,
                        !.selected_index =
                           IF @ >= Len(tasks) /\ @ > 0
                           THEN Len(tasks) - 1 ELSE @]
           /\ file' = Saved(file, tasks)
           /\ TuiWrite("idle", FALSE)
  /\ UNCHANGED <<clock, pidFile, daemonVars, cli, orphans, dying,
                 tickHistory, exitPoint, lastSignal, mutation>>

\* The CLI, both TUI interfaces and the daemon at work on one registry that
\* starts empty, at one instant.
RegistryInit ==
  /\ clock = MaxTime
  /\ file = <<>>
  /\ opsLeft = MaxUserOps
  /\ Started

RegistryNext ==
  \/ LoadEvents
  \/ Tick
  \/ EvalTask
  \/ CommandExit
  \/ Persist
  \/ Terminated
  \/ CliLoad
  \/ HandleAdd
  \/ HandleRemove
  \/ HandleStop
  \/ HandleStart
  \/ StopDaemon
  \/ StopDaemonCleanup
  \/ StartDaemon
  \/ TuiRefresh
  \/ TuiAdd
  \/ TuiDelete
  \/ TuiToggle
  \/ TuiStopDaemon
  \/ TuiStopDaemonCleanup
  \/ TuiStartDaemon
  \/ AppRefreshTasks
  \/ AppAddTask
  \/ AppToggleTask
  \/ AppDeleteTask

RegistrySpec == RegistryInit /\ [][RegistryNext]_vars

(***************************************************************************)
(* AppState's selection (tui/state.rs lines 124-178).  selected_index      *)
(* counts from 0, as in the source; the selected task is                   *)
(* tasks[selected_index + 1].                                              *)
(***************************************************************************)
MaxTasks == 3

\* usize::saturating_sub
saturating_sub(a, b) == IF a > b THEN a - b ELSE 0

\* A remove_selected_task that leaves selected_index alone: a variant that
\* the statement of C36 must tell from SelectionAfterRemove.
SelectionAfterRemove_kept(selected_index, len) == selected_index

\* remove_selected_task, lines 174-176: the selection after the removal,
\* for the number of tasks left.
SelectionAfterRemove(selected_index, len) ==
  IF selected_index > 0 /\ selected_index >= len
  THEN saturating_sub(len, 1)
  ELSE selected_index

\* The tasks the TUI is given (create_test_event of tui/tests.rs), and the
\* registries of up to MaxTasks of them.
SelectionTasks ==
  {Event(slug, EveryMinute, "echo test", active, 0, None) :
     slug \in Slugs, active \in BOOLEAN}

SelectionRegistries ==
  UNION {[1..n -> SelectionTasks] : n \in 0..MaxTasks}

AppStep ==
  UNCHANGED <<clock, file, pidFile, daemonVars, cliVars, lifeVars,
              tickHistory, exitPoint, lastSignal, fresh, lastWriter,
              mutation, clean>>

\* AppState::load_from_storage, lines 124-130.
load_from_storage ==
  /\ app.op = "none"
  /\ app' = [NoApp EXCEPT !.tasks = file, !.op = "load_from_storage"]
  /\ AppStep

\* lines 149-153
move_selection_up ==
  /\ app.op # "none"
  /\ app' = [app EXCEPT
               !.selected_index = IF @ > 0 THEN @ - 1 ELSE @,
               !.op = "move_selection_up"]
  /\ AppStep

\* lines 156-160
move_selection_down ==
  /\ app.op # "none"
  /\ app' = [app EXCEPT
               !.selected_index =
                  IF @ < saturating_sub(Len(app.tasks), 1) THEN @ + 1 ELSE @,
               !.op = "move_selection_down"]
  /\ AppStep

\* lines 163-167
toggle_selected_task_active ==
  /\ app.op # "none"
  /\ app' = [app EXCEPT
               !.tasks = IF app.selected_index < Len(@)
                         THEN Toggle(@, app.selected_index + 1) ELSE @,
               !.op = "toggle_selected_task_active"]
  /\ AppStep

\* lines 170-178
remove_selected_task ==
  /\ app.op # "none"
  /\ IF app.selected_index < Len(app.tasks)
     THEN LET tasks == Remove(app.tasks, app.selected_index + 1)
          IN  app' = [app EXCEPT
                        !.tasks = tasks,
                        !.selected_index = SelectionAfterRemove(@, Len(tasks)),
                        !.op = "remove_selected_task"]
     ELSE app' = [app EXCEPT !.op = "remove_selected_task"]
  /\ AppStep

SelectionInit ==
  /\ clock = StartTime
  /\ file \in SelectionRegistries
  /\ opsLeft = 0
  /\ Started

SelectionNext ==
  \/ load_from_storage
  \/ move_selection_up
  \/ move_selection_down
  \/ toggle_selected_task_active
  \/ remove_selected_task

SelectionSpec == SelectionInit /\ [][SelectionNext]_vars

(***************************************************************************)
(* What the claims are stated over.                                        *)
(***************************************************************************)
\* The instants of a schedule after the epoch, as a set.
Occurrences(sched) ==
  {t \in 1..Horizon :
     t <= sched.until /\ t % sched.period = sched.phase % sched.period}

\* The baseline of a should_run call: last_run, or the epoch.
Baseline(last_run) == IF last_run.set THEN last_run.t ELSE 0

\* The should_run calls of the current tick and of the tick before it.
Calls == 1..Len(evals)
PrevCalls == 1..Len(prevEvals)

C2_NoDoubleFire ==
  (dStatus = "alive" /\ pc = "wait") =>
    \A k \in 1..Len(tasks_to_update) :
      LET event == storage[tasks_to_update[k]]
      IN  /\ event.last_run.set
          /\ event.last_run.t >= now
          /\ ~should_run(schedules[event.slug], event.last_run, now)

(***************************************************************************)
(* C4: a task whose active flag is false is never handed to run_command.   *)
(***************************************************************************)
C4_InactiveNeverRun ==
  \A k \in Calls :
    evals[k].outcome # "none" => storage[evals[k].idx].active

(***************************************************************************)
(* C5: every active task found due in a tick has its last_run set to the   *)
(* tick's now when the tick is over, whatever run_command reported: exit   *)
(* zero, exit non-zero, spawn failure or empty command line.               *)
(***************************************************************************)
C5_DueTaskAlwaysRecorded ==
  (dStatus = "alive" /\ pc = "wait") =>
    \A k \in Calls :
      (evals[k].due /\ storage[evals[k].idx].active)
        => storage[evals[k].idx].last_run = Some(now)

(***************************************************************************)
(* C6: an active task whose run failed (non-zero exit or spawn failure) in *)
(* a tick is attempted again in the next tick only if an occurrence after  *)
(* the failed attempt is due by then.  Stated for behaviours in which      *)
(* every reload and persist succeeded.                                     *)
(***************************************************************************)
C6_NoRetryOfFailedRun ==
  clean =>
    \A k \in Calls, j \in PrevCalls :
      ( /\ evals[k].slug = prevEvals[j].slug
        /\ storage[evals[k].idx].active
        /\ evals[k].due
        /\ prevEvals[j].outcome \in {"exit_nonzero", "spawn_failed"} )
      => \E o \in Occurrences(schedules[evals[k].slug]) :
           o > prevNow /\ o <= now + Tolerance

(***************************************************************************)
(* C7: a tick that attempts an active task which missed several            *)
(* occurrences, the oldest by more than the tolerance, is the one catch-up *)
(* run: the next tick attempts the task only with the missed occurrences   *)
(* behind its last_run and for an occurrence after the catch-up tick.      *)
(* Stated for behaviours in which every reload and persist succeeded.      *)
(***************************************************************************)
C7_OneCatchUpRun ==
  clean =>
    \A k \in Calls, j \in PrevCalls :
      LET occ == Occurrences(schedules[evals[k].slug])
          missed == {o \in occ : o > Baseline(prevEvals[j].last_run)
                                 /\ o <= prevNow}
      IN  ( /\ evals[k].slug = prevEvals[j].slug
            /\ storage[evals[k].idx].active
            /\ prevEvals[j].due
            /\ evals[k].due
            /\ Cardinality(missed) >= 2
            /\ \E o \in missed : o + Tolerance < prevNow )
          => /\ \A o \in missed : o <= Baseline(evals[k].last_run)
             /\ \E o \in occ : o > prevNow /\ o <= now + Tolerance

(***************************************************************************)
(* C8: with last_run absent and an occurrence of the rule at or before     *)
(* now, should_run is true; asked again at the same instant with the same  *)
(* last_run it gives the same answer; and with last_run set it is true     *)
(* only for an occurrence after last_run, so an occurrence that last_run   *)
(* has passed never makes the task due again.                              *)
(***************************************************************************)
C8_FiresOncePerOccurrence ==
  \A k \in Calls :
    LET occ == Occurrences(schedules[evals[k].slug])
    IN  /\ (~evals[k].last_run.set /\ \E o \in occ : o <= now)
             => evals[k].due
        /\ \A j \in PrevCalls :
             ( /\ prevEvals[j].slug = evals[k].slug
               /\ prevEvals[j].last_run = evals[k].last_run
               /\ prevNow = now )
             => prevEvals[j].due = evals[k].due
        /\ (evals[k].last_run.set /\ evals[k].due)
             => \E o \in occ : /\ o > evals[k].last_run.t
                               /\ o <= now + Tolerance

\* A task that never ran was due for a past occurrence, ran, and at the next
\* tick is not due.
C8_Witness ==
  \E k \in Calls, j \in PrevCalls :
    /\ prevEvals[j].slug = evals[k].slug
    /\ ~prevEvals[j].last_run.set
    /\ prevEvals[j].due
    /\ \E o \in Occurrences(schedules[evals[k].slug]) : o <= prevNow
    /\ evals[k].last_run = Some(prevNow)
    /\ ~evals[k].due

(***************************************************************************)
(* C3 as stated: the last_run of a task in events.json, once set, stays    *)
(* set and never decreases while the task is registered, in every step of  *)
(* the daemon and of the CLI.                                              *)
(***************************************************************************)
LastRunKept(before, after) ==
  \A s \in SlugsOf(before) \cap SlugsOf(after) :
    Find(before, s).last_run.set =>
      /\ Find(after, s).last_run.set
      /\ Find(after, s).last_run.t >= Find(before, s).last_run.t

C3_LastRunMonotone == [][LastRunKept(file, file')]_vars

(***************************************************************************)
(* C3, amended: a save made from a copy of events.json that no other       *)
(* process has written since the copy was read keeps every set last_run    *)
(* and never decreases it.  (A save from an older copy, racing another     *)
(* writer, can lose or lower it: last writer wins.)                        *)
(***************************************************************************)
C3_LastRunMonotoneWithoutRace ==
  [][(file' # file /\ lastWriter' \in {"cli", "daemon"})
       => LastRunKept(file, file')]_vars

\* The CLI saved, from a copy nobody had written since, a registry in which
\* the daemon had recorded a last_run.
C3_Witness ==
  /\ lastWriter = "cli"
  /\ \E i \in Indices(file) : file[i].last_run.set

(***************************************************************************)
(* C9: a daemon that was asked to shut down did not end inside a tick:     *)
(* neither between two tasks of the tick nor while a command was running.  *)
(***************************************************************************)
C9_TickFinishedBeforeExit ==
  dStatus \in {"exited", "killed"} => exitPoint \notin {"eval", "running"}

(***************************************************************************)
(* C10: a daemon that received SIGTERM ends as it does on SIGINT: it       *)
(* leaves the loop and has itself removed the PID file when it is gone.    *)
(***************************************************************************)
C10_SigtermIsGraceful ==
  (lastSignal = "SIGTERM" /\ dStatus # "alive")
    => (dStatus = "exited" /\ pidFile # dPid)

(***************************************************************************)
(* C11: once SIGINT has been delivered to the looping daemon, the daemon   *)
(* eventually leaves the scheduler loop, however the ticks keep coming.    *)
(***************************************************************************)
C11_ShutdownNotStarved == signalled ~> (dStatus # "alive")

\* The daemon left the loop on SIGINT while a tick's command was running.
C11_Witness ==
  /\ dStatus = "exited"
  /\ lastSignal = "SIGINT"
  /\ exitPoint = "running"

\* The daemon processes that are running the scheduler loop.
LoopingDaemons ==
  (IF dStatus = "alive" THEN {dPid} ELSE {}) \cup orphans

(***************************************************************************)
(* C12: whatever start, stop and restart calls the CLI and the TUI issue,  *)
(* and however their steps interleave, at most one daemon process is       *)
(* running the scheduler loop.                                             *)
(***************************************************************************)
C12_SingleInstance == Cardinality(LoopingDaemons) <= 1

(***************************************************************************)
(* C13: in every state a daemon is running the scheduler loop only if the  *)
(* PID file exists and holds that daemon's pid (and a PID file naming a    *)
(* live daemon means that daemon is looping).                              *)
(***************************************************************************)
C13_MarkerFaithful ==
  /\ LoopingDaemons \subseteq {pidFile}
  /\ (pidFile # 0 /\ pidFile \in AlivePids \ dying)
       => pidFile \in LoopingDaemons

\* The steps of a user process in start_daemon and in stop_daemon.
StartStep(self) ==
  Proc(self).pc = "start_daemon" /\ Proc(self)' # Proc(self)

StopStep(self) ==
  Proc(self).pc = "stop_daemon" /\ Proc(self)' # Proc(self)

CleanupStep(self) ==
  Proc(self).pc = "stop_sleep" /\ Proc(self)' # Proc(self)

(***************************************************************************)
(* C14: start_daemon called while the PID file names a process that exists *)
(* returns the already-running error, leaves the PID file as it is and     *)
(* starts no daemon.                                                       *)
(***************************************************************************)
C14_StartRefusedWhenRunning ==
  [][\A self \in Users :
       (StartStep(self) /\ MarkerState = "live")
       => /\ result'[self].start = AlreadyRunning
          /\ pidFile' = pidFile
          /\ LoopingDaemons' = LoopingDaemons
          /\ AlivePids' = AlivePids]_vars

\* A start_daemon found the PID file naming the looping daemon and returned.
C14_Witness ==
  \E self \in Users :
    /\ result[self].startSaw = "live"
    /\ result[self].start = AlreadyRunning
    /\ pidFile \in LoopingDaemons

C16_StopWithoutMarker ==
  [][\A self \in Users :
       (StopStep(self) /\ MarkerState = "absent")
       => /\ result'[self].stop = "Daemon is not running"
          /\ pidFile' = 0
          /\ dying' = dying
          /\ LoopingDaemons' = LoopingDaemons
          /\ lastSignal' = lastSignal]_vars

\* A plain stop found no PID file and returned.
C16_Witness ==
  \E self \in Users :
    /\ result[self].stopSaw = "absent"
    /\ result[self].stop # "none"
    /\ Proc(self).pc = "idle"

(***************************************************************************)
(* C17: stop_daemon called while the PID file names a process that does    *)
(* not exist removes the PID file, signals no process and returns the      *)
(* stale-state error, which is neither success nor the not-running error.  *)
(***************************************************************************)
C17_StopWithStaleMarker ==
  [][\A self \in Users :
       (StopStep(self) /\ MarkerState = "stale")
       => /\ result'[self].stop = StaleState
          /\ result'[self].stop \notin {"Ok", NotRunning}
          /\ pidFile' = 0
          /\ dying' = dying
          /\ LoopingDaemons' = LoopingDaemons
          /\ lastSignal' = lastSignal]_vars

\* A stop_daemon found a stale PID file and returned.
C17_Witness ==
  \E self \in Users :
    /\ result[self].stopSaw = "stale"
    /\ result[self].stop # "none"
    /\ pidFile = 0

(***************************************************************************)
(* C18: stop_daemon called while the PID file names a process that exists  *)
(* sends SIGTERM to that process, so that it no longer runs the scheduler  *)
(* loop, then sleeps; when it returns, with success, no PID file exists,   *)
(* whether the signalled process is gone by then or not.                   *)
(***************************************************************************)
C18_StopSignalsAndRemovesMarker ==
  [][\A self \in Users :
       /\ (StopStep(self) /\ MarkerState = "live")
          => /\ pidFile \in dying'
             /\ pidFile \notin LoopingDaemons'
             /\ Proc(self)'.pc = "stop_sleep"
             /\ pidFile' = pidFile
       /\ CleanupStep(self)
          => /\ pidFile' = 0
             /\ result'[self].stop = "Ok"
             /\ dying' = dying]_vars

\* A stop_daemon returned success and removed the PID file while the process
\* it had signalled was not gone yet.
C18_Witness ==
  \E self \in Users :
    /\ result[self].stopSaw = "live"
    /\ result[self].stop = "Ok"
    /\ pidFile = 0
    /\ dying # {}

(***************************************************************************)
(* C19: restart_daemon goes on to start_daemon whatever stop_daemon found  *)
(* and returned (no PID file, a stale one, a live daemon), and what it     *)
(* returns is what start_daemon returns for the PID file it finds.         *)
(***************************************************************************)
C19_RestartIgnoresStopResult ==
  [][\A self \in Users :
       /\ (Proc(self).restart /\ StopStep(self)
             /\ MarkerState \in {"absent", "stale"})
          => Proc(self)'.pc = "start_daemon"
       /\ (Proc(self).restart /\ CleanupStep(self))
          => Proc(self)'.pc = "start_daemon"
       /\ (Proc(self).restart /\ StartStep(self))
          => result'[self].start =
               IF MarkerState = "live" THEN AlreadyRunning ELSE "Ok"]_vars

\* A restart whose stop_daemon failed on a stale PID file has started the
\* daemon.
C19_Witness ==
  \E self \in Users :
    /\ result[self].stop = StaleState
    /\ result[self].start = "Ok"
    /\ Proc(self).pc = "idle"

\* The tasks of a registry whose cron parses.
ValidTasks(events) ==
  {i \in Indices(events) : Schedule_from_str(events[i].cron).ok}

(***************************************************************************)
(* C20: per-task isolation.  A reload that reads the registry succeeds and *)
(* gives a schedule to every task whose cron parses, whatever the other    *)
(* tasks' crons; when the loop over the tasks of a tick is over, every     *)
(* task whose cron parses has been evaluated exactly once, with the        *)
(* verdict of should_run for its own schedule, and has been handed to      *)
(* run_command if due, whatever the other tasks' crons and whatever their  *)
(* commands did; and the daemon then waits for the next tick.              *)
(***************************************************************************)
C20_PerTaskIsolation ==
  [][/\ (pc = "wait" /\ pc' = "eval" /\ clean')
        => /\ storage' = file
           /\ \A i \in ValidTasks(file) : file[i].slug \in DOMAIN schedules'
     /\ (pc = "eval" /\ idx > Len(storage) /\ pc' # pc)
        => /\ dStatus' = "alive" /\ pc' = "wait"
           /\ \A i \in ValidTasks(storage) :
                /\ Cardinality({k \in 1..Len(evals) : evals[k].idx = i}) = 1
                /\ \A k \in 1..Len(evals) :
                     evals[k].idx = i
                     => /\ evals[k].due =
                             should_run(Schedule_from_str(storage[i].cron),
                                        storage[i].last_run, now)
                        /\ evals[k].due
                           => evals[k].outcome \in
                                Outcomes(storage[i].command)]_vars

\* The tick after one over a registry whose first task has a cron that does
\* not parse and whose second task was due and ran.
C20_Witness ==
  /\ dStatus = "alive" /\ pc = "eval" /\ clean
  /\ Len(storage) = 2
  /\ ~Schedule_from_str(storage[1].cron).ok
  /\ \E k \in 1..Len(prevEvals) :
       /\ prevEvals[k].idx = 2
       /\ prevEvals[k].due
       /\ prevEvals[k].outcome \in {"exit_zero", "exit_nonzero"}

\* The steps of Scheduler::run that begin a tick: reload_events returned.
ReloadStep == pc = "wait" /\ pc' = "eval"

ParsingSlugs(events) == {events[i].slug : i \in ValidTasks(events)}

(***************************************************************************)
(* C22: after every successful load or reload, the schedule map has an     *)
(* entry for a slug if and only if the registry just read holds a task of  *)
(* that slug whose cron parses, and the entry is that cron's schedule: an  *)
(* entry of a task that is no longer in the registry does not survive.     *)
(***************************************************************************)
C22_IndexRebuiltOnReload ==
  [][((ReloadStep /\ tickLog'.reload = "ok") \/ (pc = "load" /\ pc' = "wait"))
     => /\ DOMAIN schedules' = ParsingSlugs(file)
        /\ \A i \in ValidTasks(file) :
             schedules'[file[i].slug] = Schedule_from_str(file[i].cron)]_vars

\* A daemon that evaluated a task in its last tick has reloaded a registry
\* from which the task was removed: the task's schedule is gone.
C22_Witness ==
  /\ dStatus = "alive" /\ pc \in {"eval", "wait"}
  /\ tickLog.reload = "ok"
  /\ prevEvals # <<>>
  /\ \E k \in 1..Len(prevEvals) :
       /\ prevEvals[k].slug \notin SlugsOf(storage)
       /\ prevEvals[k].slug \notin DOMAIN schedules

\* The registry events shows the mutation m that a CLI handler saved: the
\* added slug is there, the removed one is not, the flags are as set.
Reflected(m, events) ==
  CASE m.op = "add"    -> /\ m.slugs \subseteq SlugsOf(events)
                          /\ \A i \in Indices(events) :
                               events[i].slug \in m.slugs
                               => events[i].cron = m.cron
    [] m.op = "remove" -> m.slugs \cap SlugsOf(events) = {}
    [] m.op = "stop"   -> \A i \in Indices(events) :
                            events[i].slug \in m.slugs => ~events[i].active
    [] m.op = "start"  -> \A i \in Indices(events) :
                            (m.slugs = {} \/ events[i].slug \in m.slugs)
                            => events[i].active
    [] OTHER           -> TRUE

\* What a tick that has reloaded the registry with mutation m in it does:
\* the schedule map follows at the reload, and when the loop over the tasks
\* is over a removed task was not evaluated, an added one was, and a
\* disabled one was not handed to run_command.
TickReflects(m) ==
  /\ (ReloadStep /\ tickLog'.reload = "ok")
     => /\ Reflected(m, storage')
        /\ dPid' = dPid /\ dStatus' = "alive"
        /\ m.op = "add" => m.slugs \subseteq DOMAIN schedules'
        /\ m.op = "remove" => m.slugs \cap DOMAIN schedules' = {}
  /\ (pc = "eval" /\ idx > Len(storage) /\ pc' = "wait"
        /\ tickLog.reload = "ok" /\ Reflected(m, storage))
     => /\ m.op = "remove"
           => \A k \in 1..Len(evals) : evals[k].slug \notin m.slugs
        /\ m.op = "add"
           => \A sl \in m.slugs :
                \E k \in 1..Len(evals) : evals[k].slug = sl
        /\ m.op = "stop"
           => \A k \in 1..Len(evals) :
                evals[k].slug \in m.slugs => evals[k].outcome = "none"

(***************************************************************************)
(* C23: a mutation of the registry (add, remove, enable, disable) whose    *)
(* save completed before a tick's reload is reflected in that tick,        *)
(* without a restart of the daemon: a removed task is not evaluated or     *)
(* run, an added task is evaluated, a disabled task is not run.  (Stated   *)
(* for a mutation that is still what the registry file holds: one that the *)
(* daemon overwrote with its own older copy is last-writer-wins, C24.)     *)
(***************************************************************************)
C23_MutationPickedUp ==
  [][(mutation.op # "none" /\ lastWriter \in {"cli", "cli_stale"})
     => TickReflects(mutation)]_vars

\* The last_run that events holds for a slug, None when it has no such task.
LastRunOf(events, slug) ==
  IF slug \in SlugsOf(events) THEN Find(events, slug).last_run
  ELSE None

(***************************************************************************)
(* C24: last writer wins on the whole registry file.  After a persist of   *)
(* the daemon the file is the daemon's whole in-memory registry, whatever  *)
(* a CLI handler saved since the daemon's reload; after a save of a CLI    *)
(* handler the file has the tasks of the copy the handler loaded, as the   *)
(* handler changed them, with the last_run values of that copy, whatever   *)
(* the daemon persisted since the handler's load.  The file never holds a  *)
(* merge of the two.                                                       *)
(***************************************************************************)
C24_LastWriterWins ==
  [][/\ (pc = "eval" /\ pc' = "wait" /\ tickLog'.save = "ok")
        => file' = storage'
     /\ (cli.pc = "loaded" /\ cli'.pc # "loaded"
           /\ (file' # file \/ mutation' # mutation))
        => /\ SlugsOf(file') =
                CASE cli.op = "add" -> SlugsOf(cli.events) \cup cli.slugs
                  [] cli.op = "remove" -> SlugsOf(cli.events) \ cli.slugs
                  [] OTHER -> SlugsOf(cli.events)
           /\ \A i \in Indices(file') :
                file'[i].last_run = LastRunOf(cli.events, file'[i].slug)]_vars

\* The daemon persisted after 'add' had saved a task in the middle of its
\* tick: the file is the daemon's registry and the added task is lost.
C24_Witness ==
  /\ dStatus = "alive" /\ pc = "wait"
  /\ lastWriter = "daemon_stale"
  /\ mutation.op = "add"
  /\ file = storage
  /\ ~Reflected(mutation, file)

\* The commands of the current tick that have been spawned and have not
\* exited, as calls of evals.
RunningCommands == {k \in Calls : evals[k].outcome = "spawned"}

(***************************************************************************)
(* C25: within a tick the tasks are evaluated and run one after another in *)
(* registry order.  At no time are two commands of the daemon running; the *)
(* one that runs belongs to the task evaluated last, and the daemon is     *)
(* waiting for it, so a command is started only when every command         *)
(* started before it in the tick has exited.                               *)
(***************************************************************************)
C25_SequentialWithinTick ==
  /\ Cardinality(RunningCommands) <= 1
  /\ RunningCommands # {}
     => /\ RunningCommands = {Len(evals)}
        /\ pc = "running"
        /\ evals[Len(evals)].idx = idx
  /\ \A k1, k2 \in Calls : k1 < k2 => evals[k1].idx < evals[k2].idx

\* The second task's command is running after the first task's command was
\* started and has exited, in the same tick.
C25_Witness ==
  /\ dStatus = "alive" /\ pc = "running"
  /\ Len(evals) = 2
  /\ evals[1].outcome \in {"exit_zero", "exit_nonzero"}
  /\ evals[2].outcome = "spawned"

\* The step that ends a tick: the loop over the tasks is over.
TickEndStep == pc = "eval" /\ idx > Len(storage) /\ pc' = "wait"

(***************************************************************************)
(* C26: in each tick the daemon saves the registry at most once, when all  *)
(* tasks have been evaluated, and it does so if and only if at least one   *)
(* task was recorded for a last_run update in the tick; the file is the    *)
(* in-memory registry then.  In a tick that recorded no task the daemon    *)
(* does not write the file.                                                *)
(***************************************************************************)
C26_OnePersistPerTick ==
  [][/\ file' # file => (TickEndStep /\ tasks_to_update # <<>>)
     /\ tickLog'.save # tickLog.save => TickEndStep \/ tickLog'.save = "none"
     /\ TickEndStep
        => /\ tickLog.save = "none"
           /\ tickLog'.save # "none" <=> tasks_to_update # <<>>
           /\ tickLog'.save = "ok" => file' = storage'
           /\ tickLog'.save # "ok" => file' = file
           /\ \A i \in Indices(storage) :
                (\E k \in 1..Len(tasks_to_update) : tasks_to_update[k] = i)
                <=> (\E k \in Calls : /\ evals[k].idx = i
                                      /\ evals[k].outcome \in
                                           {"exit_zero", "exit_nonzero"})]_vars

\* A tick in which two tasks ran has saved the registry, once, with both
\* last_run values.
C26_Witness ==
  /\ dStatus = "alive" /\ pc = "wait"
  /\ tickLog.save = "ok"
  /\ Len(tasks_to_update) = 2
  /\ file = storage
  /\ \A i \in Indices(file) : file[i].last_run = Some(now)

(***************************************************************************)
(* C27: when the save at the end of a tick fails, the tick ends there (the *)
(* file is as it was, the daemon waits for the next tick); a reload that   *)
(* succeeds in the next tick takes the registry of the file, so each task  *)
(* is evaluated against the last_run the file holds, not the one the       *)
(* failed save was to write.                                               *)
(***************************************************************************)
C27_FailedPersistNotRetried ==
  [][/\ (TickEndStep /\ tickLog'.save = "failed")
        => /\ file' = file
           /\ dStatus' = "alive" /\ pc' = "wait"
     /\ (ReloadStep /\ tickLog.save = "failed" /\ tickLog'.reload = "ok")
        => storage' = file
     /\ (pc \in {"eval", "running"} /\ tickLog.prevSave = "failed"
           /\ tickLog.reload = "ok")
        => \A k \in Calls :
             evals[k].last_run = LastRunOf(file, evals[k].slug)]_vars

\* After a tick whose save failed, the next tick has reloaded the registry
\* and evaluated, against the last_run it had before, a task that ran in the
\* tick before: the update was lost and the task is due again.
C27_Witness ==
  /\ dStatus = "alive"
  /\ tickLog.prevSave = "failed" /\ tickLog.reload = "ok"
  /\ \E k \in Calls, j \in PrevCalls :
       /\ evals[k].slug = prevEvals[j].slug
       /\ prevEvals[j].outcome \in {"exit_zero", "exit_nonzero"}
       /\ evals[k].last_run = prevEvals[j].last_run
       /\ evals[k].last_run # Some(prevNow)
       /\ evals[k].due

\* The fields of a task that a save and a load must hand back.
TaskFields ==
  {"slug", "cron", "command", "active", "created_at", "last_run"}

(***************************************************************************)
(* C28: saving a registry of N tasks and loading it back yields N tasks in *)
(* the same order, each with the slug, cron, command, active flag,         *)
(* created_at and last_run it was saved with.                              *)
(***************************************************************************)
C28_RoundTrip ==
  (cli.pc = "loaded_back" /\ cli.op = "saved")
  => /\ Len(cli.events) = Len(tui.events)
     /\ \A i \in Indices(tui.events) :
          \A f \in TaskFields :
            /\ f \in DOMAIN cli.events[i]
            /\ cli.events[i][f] = tui.events[i][f]

\* The step in which handle_add(slug, ..) returns an error or saves: the
\* cron expression did not parse (the handler returns before it loads), or
\* the handler has loaded and goes on.
AddDecided(slug) ==
  \/ /\ cli.pc = "idle" /\ cli'.pc = "idle" /\ opsLeft' # opsLeft
     /\ result'["cli"].op = "add" /\ result'["cli"].slugs = {slug}
  \/ /\ cli.pc = "loaded" /\ cli.op = "add" /\ cli.slugs = {slug}
     /\ cli'.pc # "loaded"

\* The registry handle_add decides on: the one it loaded, or the file when it
\* returns before loading.
RegistrySeen == IF cli.pc = "loaded" THEN cli.events ELSE file

\* C29 as stated: an add of a slug that a task of the registry has is
\* rejected with the 'already exists' error, and the file is left as it was.
C29_DuplicateAddAlreadyExists ==
  [][\A slug \in Slugs :
       (AddDecided(slug) /\ slug \in SlugsOf(RegistrySeen))
       => /\ result'["cli"].error = AlreadyExists(slug)
          /\ file' = file]_vars

(***************************************************************************)
(* C29, amended: an add of a slug that a task of the registry has is       *)
(* rejected and leaves the registry file as it was (same count, same       *)
(* contents); the error is 'already exists' when the cron expression       *)
(* parses, and 'Invalid cron expression' when it does not, as the cron     *)
(* expression is validated before the registry is read.                    *)
(***************************************************************************)
C29_DuplicateAddRejected ==
  [][\A slug \in Slugs :
       (AddDecided(slug) /\ slug \in SlugsOf(RegistrySeen))
       => /\ result'["cli"].error =
               IF cli.pc = "loaded" THEN AlreadyExists(slug) ELSE InvalidCron
          /\ result'["cli"].error # <<>>
          /\ file' = file
          /\ Len(file') = Len(file)
          /\ cli' = Idle]_vars

\* A duplicate add with a cron expression that parses was rejected, with a
\* registry of one task or more.
C29_Witness ==
  /\ result["cli"].op = "add"
  /\ \E slug \in result["cli"].slugs :
       /\ result["cli"].error = AlreadyExists(slug)
       /\ slug \in SlugsOf(file)
  /\ cli = Idle

\* The step in which handle_remove(slug), having loaded, returns an error or
\* saves.
RemoveDecided(slug) ==
  /\ cli.pc = "loaded" /\ cli.op = "remove" /\ cli.slugs = {slug}
  /\ cli'.pc # "loaded"

(***************************************************************************)
(* C30: a remove of a slug that no task of the registry has returns the    *)
(* 'not found' error and writes nothing: the registry file keeps its count *)
(* and its contents, and the handler does not go on to restart the daemon. *)
(***************************************************************************)
C30_RemoveAbsentNotFound ==
  [][\A slug \in Slugs :
       (RemoveDecided(slug) /\ slug \notin SlugsOf(cli.events))
       => /\ result'["cli"].error = NotFound(slug)
          /\ file' = file
          /\ Len(file') = Len(file)
          /\ lastWriter' = lastWriter
          /\ mutation' = mutation
          /\ cli' = Idle]_vars

\* A remove of a slug that none of the registry's tasks has was rejected,
\* with a registry that holds another task.
C30_Witness ==
  /\ result["cli"].op = "remove"
  /\ \E slug \in result["cli"].slugs :
       /\ result["cli"].error = NotFound(slug)
       /\ slug \notin SlugsOf(file)
  /\ file # <<>>
  /\ cli = Idle

\* No two events of a registry have the same slug.
UniqueSlugs(events) ==
  \A i, j \in Indices(events) : events[i].slug = events[j].slug => i = j

(***************************************************************************)
(* C31: the registry file never holds two tasks with the same slug,        *)
(* whatever the CLI, the TUI's add paths, the AddTask signal, removals,    *)
(* toggles and the scheduler's persists do, in any order.                  *)
(***************************************************************************)
C31_SlugsUnique == UniqueSlugs(file)

\* The step in which handle_add returns because the cron expression does
\* not parse.
AddRefusedForCron ==
  /\ cli.pc = "idle" /\ opsLeft' # opsLeft /\ tui' = tui /\ app' = app
  /\ result'["cli"].op = "add"
  /\ ~Schedule_from_str(result'["cli"].cron).ok

\* The step in which handle_add is called with a cron expression that does
\* not parse, whatever it does with it.
AddWithBadCron ==
  \/ AddRefusedForCron
  \/ /\ cli.pc = "idle" /\ cli'.pc = "loaded" /\ cli'.op = "add"
     /\ ~Schedule_from_str(cli'.cron).ok

\* Every event of events has a cron expression that parses.
AllParse(events) ==
  \A i \in Indices(events) : Schedule_from_str(events[i].cron).ok

(***************************************************************************)
(* C32: an add with a cron expression that does not parse returns the      *)
(* 'Invalid cron expression' error before the registry is loaded, and      *)
(* leaves the registry file as it was; no add path (CLI, TUI menu, TUI     *)
(* dialog) admits such a task, so starting from an empty registry no task  *)
(* with an unparseable expression is ever in the file or in the            *)
(* scheduler's memory.                                                     *)
(***************************************************************************)
C32_InvalidCronRejected ==
  [][/\ AddWithBadCron
        => /\ result'["cli"].error = InvalidCron
           /\ cli' = Idle
           /\ file' = file
           /\ fresh' = fresh
     /\ AllParse(file')
     /\ AllParse(storage')
     /\ AllParse(app'.storage) /\ AllParse(app'.tasks)]_vars

\* An add with a cron expression that does not parse was refused, with a
\* task in the registry that an earlier add had admitted.
C32_Witness ==
  /\ result["cli"].op = "add"
  /\ result["cli"].cron = BadCron
  /\ result["cli"].error = InvalidCron
  /\ cli = Idle
  /\ file # <<>>

\* No event of events has an empty command line.
NoEmptyCommand(events) ==
  \A i \in Indices(events) : events[i].command # ""

(***************************************************************************)
(* C33: every add path rejects an empty command, so no task with an empty  *)
(* command line is in the registry file or in the registry the scheduler   *)
(* evaluates and runs.                                                     *)
(***************************************************************************)
C33_EmptyCommandRejected ==
  /\ NoEmptyCommand(file)
  /\ NoEmptyCommand(storage)

\* The step in which handle_stop or handle_start, having loaded, returns
\* an error, saves, or goes on without a save.
FlagsDecided ==
  /\ cli.pc = "loaded" /\ cli.op \in {"stop", "start"}
  /\ cli'.pc # "loaded"

\* The event as it is in the registry written, for an event e of the
\* registry loaded: only the active flag of a named task is set.
Flagged(e, slugs, v) ==
  Event(e.slug, e.cron, e.command, IF e.slug \in slugs THEN v ELSE e.active,
        e.created_at, e.last_run)

RanInTick(i) ==
  \E k \in Calls : /\ evals[k].idx = i
                   /\ evals[k].outcome \in {"exit_zero", "exit_nonzero"}

\* The registry after differs from the registry before in nothing but the
\* last_run of the tasks that were run in the current tick, which is the
\* tick's time.
OnlyLastRunOfRun(before, after) ==
  /\ Len(after) = Len(before)
  /\ \A i \in Indices(before) :
       /\ after[i] = [before[i] EXCEPT !.last_run = after[i].last_run]
       /\ after[i].last_run # before[i].last_run
          => /\ RanInTick(i)
             /\ after[i].last_run = Some(now)

\* C35 as stated: with the scheduler alone at work, no step of a tick
\* changes anything in the registry file but the last_run of the tasks run
\* in that tick.
C35_TickChangesOnlyLastRun ==
  [][OnlyLastRunOfRun(file, file')]_vars

(***************************************************************************)
(* C35, amended: with the scheduler alone at work, no step changes the     *)
(* number or the order of the tasks in the file, or the slug, cron,        *)
(* command, active flag or created_at of any of them (a task that exited   *)
(* non-zero keeps its flag); and a tick that has reloaded the registry     *)
(* changes, in the file and in memory, only the last_run of the tasks it   *)
(* ran in that tick, which becomes the tick's time.  (A tick whose reload  *)
(* failed saves the registry it kept, with the last_run values of earlier  *)
(* ticks whose save failed.)                                               *)
(***************************************************************************)
C35_TickOfGoodReloadChangesOnlyLastRun ==
  [][/\ Len(file') = Len(file)
     /\ \A i \in Indices(file) :
          file'[i] = [file[i] EXCEPT !.last_run = file'[i].last_run]
     /\ (pc \in {"eval", "running"} /\ tickLog.reload = "ok")
        => /\ OnlyLastRunOfRun(file, file')
           /\ OnlyLastRunOfRun(storage, storage')]_vars

\* A task that is active exited non-zero in a tick that reloaded, and the
\* tick's save wrote the file: the task is still active, and has the
\* tick's time as last_run.
C35_Witness ==
  /\ dStatus = "alive" /\ pc = "wait"
  /\ tickLog.reload = "ok" /\ tickLog.save = "ok"
  /\ \E k \in Calls :
       /\ evals[k].outcome = "exit_nonzero"
       /\ file[evals[k].idx].active
       /\ file[evals[k].idx].last_run = Some(now)
  /\ \E i \in Indices(file) : ~RanInTick(i)

\* selected_index is 0 or an index of tasks.
SelectionValid(state) ==
  state.selected_index = 0 \/ state.selected_index < Len(state.tasks)

(***************************************************************************)
(* C36: from a state whose selected_index is 0 or less than the number of  *)
(* tasks, every move_selection_up, move_selection_down,                    *)
(* toggle_selected_task_active and remove_selected_task gives such a state *)
(* again; moving up at index 0 and moving down at the last index leave the *)
(* index as it is; removing the task at the last index leaves the          *)
(* selection on the new last index.                                        *)
(***************************************************************************)
C36_SelectionInRange ==
  [][/\ SelectionValid(app) => SelectionValid(app')
     /\ (app'.op = "move_selection_up" /\ app.selected_index = 0)
        => app'.selected_index = 0
     /\ (app'.op = "move_selection_down"
           /\ app.selected_index + 1 >= Len(app.tasks))
        => app'.selected_index = app.selected_index
     /\ (app'.op = "remove_selected_task"
           /\ app.selected_index + 1 = Len(app.tasks))
        => /\ Len(app'.tasks) = Len(app.tasks) - 1
           /\ app'.selected_index = saturating_sub(Len(app'.tasks), 1)
     /\ app'.op \in {"move_selection_up", "move_selection_down",
                     "toggle_selected_task_active"}
        => Len(app'.tasks) = Len(app.tasks)]_vars

\* The task at the last index, which is not the first, was removed: the
\* selection is on the new last index.
C36_Witness ==
  /\ app.op = "remove_selected_task"
  /\ Len(app.tasks) = 2 /\ Len(file) = 3
  /\ app.selected_index = 1
  /\ app.tasks = SubSeq(file, 1, 2)

\* The calls of the current tick for which run_command started the command.
CommandStarted(k) == evals[k].outcome \in {"spawned", "exit_zero", "exit_nonzero"}

(***************************************************************************)
(* C37: whenever the scheduler starts a task's command in a tick with time *)
(* now, the rule has an occurrence after the task's last_run (after the    *)
(* epoch if it never ran), and the first such occurrence is at most        *)
(* now + 30 s: no command starts more than 30 s ahead of the occurrence    *)
(* that made it due.                                                       *)
(***************************************************************************)
C37_NeverMoreThanToleranceEarly ==
  \A k \in Calls :
    CommandStarted(k) =>
      LET later == {o \in Occurrences(schedules[evals[k].slug]) :
                      o > Baseline(evals[k].last_run)}
      IN  /\ evals[k].due
          /\ later # {}
          /\ \A o \in later : (\A q \in later : o <= q)
                                => o <= now + Tolerance

\* A command started ahead of its occurrence, by the whole tolerance: the
\* task ran before, and the first occurrence after that run is now + 30 s.
C37_Witness ==
  \E k \in Calls :
    /\ CommandStarted(k)
    /\ evals[k].last_run.set
    /\ now + Tolerance \in Occurrences(schedules[evals[k].slug])
    /\ \A o \in Occurrences(schedules[evals[k].slug]) :
         o > evals[k].last_run.t => o >= now + Tolerance

\* The occurrence a due call is for: the first one after its baseline.
OccurrenceOf(sched, last_run) ==
  LET later == {o \in Occurrences(sched) : o > Baseline(last_run)}
  IN  CHOOSE o \in later : \A q \in later : o <= q

(***************************************************************************)
(* C38: for a rule whose occurrences are more than 30 s apart, with ticks  *)
(* 10 s apart and every reload, run and persist succeeding, a task that    *)
(* ran in one tick for an occurrence is not run by the next tick for the   *)
(* same occurrence.                                                        *)
(***************************************************************************)
C38_OneRunPerOccurrence ==
  (clean /\ tickLog.prevSave = "ok" /\ now = prevNow + TickInterval) =>
    \A k \in Calls, j \in PrevCalls :
      LET sched == schedules[evals[k].slug]
      IN  ( /\ evals[k].slug = prevEvals[j].slug
            /\ sched.period > Tolerance
            /\ prevEvals[j].outcome = "exit_zero"
            /\ evals[k].last_run = Some(prevNow)
            /\ CommandStarted(k) )
          => OccurrenceOf(sched, evals[k].last_run)
               # OccurrenceOf(sched, prevEvals[j].last_run)

\* The step in which the daemon's save of the tick replaces the file
\* (check_and_run_tasks, lines 134-138, Ok).
DaemonWrite == TickEndStep /\ tickLog'.save = "ok"

\* after is before with last_run = Some(now) for the indices recorded in
\* tasks_to_update and nothing else changed.
StampedAtNow(before, after) ==
  /\ Len(after) = Len(before)
  /\ \A i \in Indices(before) :
       after[i] = IF \E k \in 1..Len(tasks_to_update) : tasks_to_update[k] = i
                  THEN [before[i] EXCEPT !.last_run = Some(now)]
                  ELSE before[i]

(***************************************************************************)
(* C39 as stated: every write of the registry file by the daemon is in a   *)
(* tick whose reload succeeded, and writes the registry that reload read   *)
(* with the tick's last_run updates; a tick whose reload failed does not   *)
(* write.                                                                  *)
(***************************************************************************)
C39_WritesOnlyReloadedRegistry ==
  [][DaemonWrite => /\ tickLog.reload = "ok"
                    /\ StampedAtNow(storage, file')]_vars

(***************************************************************************)
(* C39, amended: every write of the registry file by the daemon writes the *)
(* daemon's in-memory registry with the tick's last_run updates.  After a  *)
(* successful reload that registry is the one the reload read; after a     *)
(* failed reload it is the registry kept from before, which the tick       *)
(* writes over the file whenever it ran a task.  With nobody else writing, *)
(* the registry a successful reload read is the file as it still is.       *)
(***************************************************************************)
C39_WritesInMemoryRegistry ==
  [][DaemonWrite => /\ StampedAtNow(storage, file')
                    /\ storage' = file'
                    /\ tickLog.reload = "ok" => storage = file]_vars

\* A tick whose reload failed has written: the file holds the older
\* in-memory registry, with a last_run from an earlier tick whose save
\* failed next to the one of this tick.
C39_Witness ==
  /\ dStatus = "alive" /\ pc = "wait"
  /\ tickLog.reload = "failed" /\ tickLog.save = "ok"
  /\ tickLog.prevSave = "failed"
  /\ file = storage
  /\ \E i, j \in Indices(file) :
       /\ file[i].last_run = Some(now)
       /\ file[j].last_run.set /\ file[j].last_run.t < now

(***************************************************************************)
(* C40: once the daemon has left run_scheduler, by the shutdown branch of  *)
(* select! or by the error return of the initial load (Scheduler::run      *)
(* itself never returns), the PID file no longer holds the daemon's pid.   *)
(* A daemon ended by a signal's default action did not leave               *)
(* run_scheduler and is not covered.                                       *)
(***************************************************************************)
C40_MarkerRemovedOnEveryExit ==
  dStatus \in {"exited", "failed"} => pidFile # dPid

=============================================================================
